---- MODULE Spec2Model ----
(***************************************************************************)
(* Model of the Oracle full-table-scan monitor: the query grouper          *)
(* (functions/query_monitor.py), the table size classifier                 *)
(* (functions/table_analysis.py), the remediation planner                  *)
(* (functions/performance_improvement.py), the script generator            *)
(* (functions/script_generator.py), the pipeline that composes them        *)
(* (main.py, OracleMonitor.process_fts_queries) and the run around it      *)
(* (main.py, OracleMonitor.run and ExecutionController).                   *)
(*                                                                         *)
(* Python strings are TLA+ strings; Ord gives their code points, so that   *)
(* sorted(), str.upper() and str.strip() are computed as Python computes   *)
(* them.  Floats that the code only adds, compares and rounds are kept as  *)
(* exact integers in a fixed unit (see priority scores below).             *)
(***************************************************************************)
EXTENDS Integers, Sequences, FiniteSets, TLC

VARIABLES
    pc,                 \* position of the caller: which function has returned
    queries,            \* argument `queries` of group_similar_queries
    grouped_queries,    \* list returned by group_similar_queries
    db_reader,          \* the reader object: its type and what its lookups answer
    cl_queries,         \* argument `queries` of classify_tables (any Python value)
    size_threshold,     \* argument `size_threshold` of classify_tables (MB)
    classified_tables,  \* ClassificationResult returned by classify_tables
    lookups,            \* metadata lookups issued on db_reader, in call order
    raised,             \* exception that left the last call ("none" if it returned)
    solutions,          \* list returned by evaluate_performance
    returned,           \* what process_fts_queries returned ("pending" before)
    results,            \* what db_reader.execute_query answered identify_fts_queries
    ev_queries,         \* argument `queries` of evaluate_performance (None or a list)
    eg_query,           \* argument `query` of _estimate_gain
    eg_table_size_mb,   \* argument `table_size_mb` of _estimate_gain
    estimate,           \* what _estimate_gain returned or raised
    run,                \* number of the pipeline run in progress
    prev_solutions,     \* list that evaluate_performance returned in the run before
    config_file,        \* the execution config file: whether it exists, and its content
    controllers,        \* the ExecutionController instances: constructed?, self.config
    first_run_returns,  \* what the check_first_run calls returned, in call order
    run_calls,          \* operations OracleMonitor.run has called, in call order
    run_returned,       \* what OracleMonitor.run returned ("pending" before)
    sg_solutions,       \* argument `solutions` of generate_scripts (any Python value)
    saves,              \* save_sql_script calls of generate_scripts, in call order
    generated_files,    \* list returned by generate_scripts
    output_dir          \* files in output/generated_scripts: each with its script

vars == <<pc, queries, grouped_queries, db_reader, cl_queries, size_threshold,
          classified_tables, lookups, raised, solutions, returned,
          results, ev_queries, eg_query, eg_table_size_mb, estimate, run, prev_solutions,
          config_file, controllers, first_run_returns, run_calls, run_returned,
          sg_solutions, saves, generated_files, output_dir>>

----------------------------------------------------------------------------
(* Bounds of the model.                                                    *)

MaxQueries == 2

----------------------------------------------------------------------------
(* Python values.                                                          *)

\* None, where the other values of the field are strings.
NoneVal == "<None>"

\* Optional values whose payload is not a string: Some(x) or Nothing(d),
\* d being a payload of the same shape that is never read.
Some(x) == [some |-> TRUE, val |-> x]
Nothing(d) == [some |-> FALSE, val |-> d]

Range(s) == {s[i] : i \in 1..Len(s)}

\* ord() of every character of the strings the model uses.
Ord(s) ==
    CASE s = "ORDERS" -> <<79, 82, 68, 69, 82, 83>>
      [] s = "USERS"  -> <<85, 83, 69, 82, 83>>
      [] s = "orders" -> <<111, 114, 100, 101, 114, 115>>
      [] s = "users"  -> <<117, 115, 101, 114, 115>>
      [] s = "ID=1"   -> <<73, 68, 61, 49>>
      [] s = "ID=2"   -> <<73, 68, 61, 50>>
      [] s = " "      -> <<32>>
      [] s = ""       -> <<>>
      [] s = "us"     -> <<117, 115>>
      [] s = "u"      -> <<117>>
      [] s = "s"      -> <<115>>
      [] s = "U"      -> <<85>>
      [] s = "S"      -> <<83>>
      [] s = "WHERE"  -> <<87, 72, 69, 82, 69>>
      [] s = "where"  -> <<119, 104, 101, 114, 101>>
      [] s = "AND"    -> <<65, 78, 68>>
      [] s = "OR"     -> <<79, 82>>

Strings == {"ORDERS", "USERS", "orders", "users", "ID=1", "ID=2", " ", "",
            "us", "u", "s", "U", "S", "WHERE", "where", "AND", "OR"}

\* Lexicographic order on code point sequences: Python's str.__lt__.
RECURSIVE CodesLess(_, _)
CodesLess(a, b) ==
    IF b = <<>> THEN FALSE
    ELSE IF a = <<>> THEN TRUE
    ELSE IF Head(a) # Head(b) THEN Head(a) < Head(b)
    ELSE CodesLess(Tail(a), Tail(b))

\* a < b for all strings of the model, computed once.
StrLessPairs == {ab \in Strings \X Strings : CodesLess(Ord(ab[1]), Ord(ab[2]))}

StrLess(a, b) == <<a, b>> \in StrLessPairs

\* str.upper() on ASCII: a..z (97..122) move down by 32.
UpperCodes(c) == [i \in 1..Len(c) |-> IF c[i] >= 97 /\ c[i] <= 122 THEN c[i] - 32 ELSE c[i]]
UpperOf == [s \in Strings |-> CHOOSE u \in Strings : Ord(u) = UpperCodes(Ord(s))]

Upper(s) == UpperOf[s]

\* bool(s.strip()): some character of s is not whitespace.
IsWhitespace(ch) == ch \in {9, 10, 11, 12, 13, 32}

NonBlankStrings == {s \in Strings : \E i \in 1..Len(Ord(s)) : ~IsWhitespace(Ord(s)[i])}

StripNonEmpty(s) == s \in NonBlankStrings

\* sorted(xs) for a list of strings (insertion into a sorted prefix; equal
\* strings are indistinguishable, so stability is not observable).
RECURSIVE InsertStr(_, _)
InsertStr(x, s) ==
    IF s = <<>> THEN <<x>>
    ELSE IF StrLess(x, Head(s)) THEN <<x>> \o s
    ELSE <<Head(s)>> \o InsertStr(x, Tail(s))

RECURSIVE SortedStrs(_)
SortedStrs(xs) ==
    IF xs = <<>> THEN <<>>
    ELSE InsertStr(xs[Len(xs)], SortedStrs(SubSeq(xs, 1, Len(xs) - 1)))

\* sorted(S) for a set of strings.
RECURSIVE SortedSet(_)
SortedSet(S) ==
    IF S = {} THEN <<>>
    ELSE LET m == CHOOSE x \in S : \A y \in S : ~StrLess(y, x)
         IN  <<m>> \o SortedSet(S \ {m})

RECURSIVE GCD(_, _)
GCD(a, b) == IF b = 0 THEN a ELSE GCD(b, a % b)

\* The float quotient n / d, kept exact as a fraction in lowest terms.
Quotient(n, d) == [num |-> n \div GCD(n, d), den |-> d \div GCD(n, d)]

----------------------------------------------------------------------------
(* functions/query_monitor.py                                              *)

\* hashlib.md5(normalized.encode()).hexdigest() of the string
\* f"{tables} WHERE {conditions}", given as <<tables, conditions>>: the first
\* six hex digits of the digest, as a number.  The digests listed differ in
\* these digits, so comparing the numbers is comparing the hex strings.
MD5Digests ==
       (<<<<>>, <<>>>> :> 4873206)  \* 4a5bf6
    @@ (<<<<>>, <<"ID=1">>>> :> 8062517)  \* 7b0635
    @@ (<<<<>>, <<"ID=2">>>> :> 12447460)  \* bdeee4
    @@ (<<<<>>, <<"ID=1", "ID=1">>>> :> 407075)  \* 063623
    @@ (<<<<>>, <<"ID=1", "ID=2">>>> :> 8037331)  \* 7aa3d3
    @@ (<<<<>>, <<"ID=2", "ID=1">>>> :> 14170821)  \* d83ac5
    @@ (<<<<>>, <<"ID=2", "ID=2">>>> :> 3242630)  \* 317a86
    @@ (<<<<"ORDERS">>, <<>>>> :> 15627726)  \* ee75ce
    @@ (<<<<"ORDERS">>, <<"ID=1">>>> :> 12075712)  \* b842c0
    @@ (<<<<"ORDERS">>, <<"ID=2">>>> :> 14155763)  \* d7fff3
    @@ (<<<<"ORDERS">>, <<"ID=1", "ID=1">>>> :> 299041)  \* 049021
    @@ (<<<<"ORDERS">>, <<"ID=1", "ID=2">>>> :> 1332997)  \* 145705
    @@ (<<<<"ORDERS">>, <<"ID=2", "ID=1">>>> :> 7643219)  \* 74a053
    @@ (<<<<"ORDERS">>, <<"ID=2", "ID=2">>>> :> 221369)  \* 0360b9
    @@ (<<<<"USERS">>, <<>>>> :> 12023007)  \* b774df
    @@ (<<<<"USERS">>, <<"ID=1">>>> :> 864807)  \* 0d3227
    @@ (<<<<"USERS">>, <<"ID=2">>>> :> 2006961)  \* 1e9fb1
    @@ (<<<<"USERS">>, <<"ID=1", "ID=1">>>> :> 10485979)  \* a000db
    @@ (<<<<"USERS">>, <<"ID=1", "ID=2">>>> :> 6611258)  \* 64e13a
    @@ (<<<<"USERS">>, <<"ID=2", "ID=1">>>> :> 15341462)  \* ea1796
    @@ (<<<<"USERS">>, <<"ID=2", "ID=2">>>> :> 3936781)  \* 3c120d
    @@ (<<<<"users">>, <<>>>> :> 13126304)  \* c84aa0
    @@ (<<<<"users">>, <<"ID=1">>>> :> 13732436)  \* d18a54
    @@ (<<<<"users">>, <<"ID=2">>>> :> 12750053)  \* c28ce5
    @@ (<<<<"users">>, <<"ID=1", "ID=1">>>> :> 8642085)  \* 83de25
    @@ (<<<<"users">>, <<"ID=1", "ID=2">>>> :> 11388796)  \* adc77c
    @@ (<<<<"users">>, <<"ID=2", "ID=1">>>> :> 9095995)  \* 8acb3b
    @@ (<<<<"users">>, <<"ID=2", "ID=2">>>> :> 9481968)  \* 90aef0
    @@ (<<<<"ORDERS", "ORDERS">>, <<>>>> :> 2104878)  \* 201e2e
    @@ (<<<<"ORDERS", "ORDERS">>, <<"ID=1">>>> :> 13227790)  \* c9d70e
    @@ (<<<<"ORDERS", "ORDERS">>, <<"ID=2">>>> :> 8053201)  \* 7ae1d1
    @@ (<<<<"ORDERS", "ORDERS">>, <<"ID=1", "ID=1">>>> :> 4125608)  \* 3ef3a8
    @@ (<<<<"ORDERS", "ORDERS">>, <<"ID=1", "ID=2">>>> :> 6630144)  \* 652b00
    @@ (<<<<"ORDERS", "ORDERS">>, <<"ID=2", "ID=1">>>> :> 16566251)  \* fcc7eb
    @@ (<<<<"ORDERS", "ORDERS">>, <<"ID=2", "ID=2">>>> :> 10608704)  \* a1e040
    @@ (<<<<"ORDERS", "USERS">>, <<>>>> :> 10446566)  \* 9f66e6
    @@ (<<<<"ORDERS", "USERS">>, <<"ID=1">>>> :> 13615292)  \* cfc0bc
    @@ (<<<<"ORDERS", "USERS">>, <<"ID=2">>>> :> 2964060)  \* 2d3a5c
    @@ (<<<<"ORDERS", "USERS">>, <<"ID=1", "ID=1">>>> :> 5616082)  \* 55b1d2
    @@ (<<<<"ORDERS", "USERS">>, <<"ID=1", "ID=2">>>> :> 5091772)  \* 4db1bc
    @@ (<<<<"ORDERS", "USERS">>, <<"ID=2", "ID=1">>>> :> 6286778)  \* 5fedba
    @@ (<<<<"ORDERS", "USERS">>, <<"ID=2", "ID=2">>>> :> 11974751)  \* b6b85f
    @@ (<<<<"ORDERS", "users">>, <<>>>> :> 3785443)  \* 39c2e3
    @@ (<<<<"ORDERS", "users">>, <<"ID=1">>>> :> 8205993)  \* 7d36a9
    @@ (<<<<"ORDERS", "users">>, <<"ID=2">>>> :> 2905015)  \* 2c53b7
    @@ (<<<<"ORDERS", "users">>, <<"ID=1", "ID=1">>>> :> 1091461)  \* 10a785
    @@ (<<<<"ORDERS", "users">>, <<"ID=1", "ID=2">>>> :> 7804205)  \* 77152d
    @@ (<<<<"ORDERS", "users">>, <<"ID=2", "ID=1">>>> :> 16775295)  \* fff87f
    @@ (<<<<"ORDERS", "users">>, <<"ID=2", "ID=2">>>> :> 1348889)  \* 149519
    @@ (<<<<"USERS", "ORDERS">>, <<>>>> :> 4734433)  \* 483de1
    @@ (<<<<"USERS", "ORDERS">>, <<"ID=1">>>> :> 2323666)  \* 2374d2
    @@ (<<<<"USERS", "ORDERS">>, <<"ID=2">>>> :> 14091728)  \* d705d0
    @@ (<<<<"USERS", "ORDERS">>, <<"ID=1", "ID=1">>>> :> 4649997)  \* 46f40d
    @@ (<<<<"USERS", "ORDERS">>, <<"ID=1", "ID=2">>>> :> 3383590)  \* 33a126
    @@ (<<<<"USERS", "ORDERS">>, <<"ID=2", "ID=1">>>> :> 5286467)  \* 50aa43
    @@ (<<<<"USERS", "ORDERS">>, <<"ID=2", "ID=2">>>> :> 950335)  \* 0e803f
    @@ (<<<<"USERS", "USERS">>, <<>>>> :> 3423097)  \* 343b79
    @@ (<<<<"USERS", "USERS">>, <<"ID=1">>>> :> 13948138)  \* d4d4ea
    @@ (<<<<"USERS", "USERS">>, <<"ID=2">>>> :> 9188606)  \* 8c34fe
    @@ (<<<<"USERS", "USERS">>, <<"ID=1", "ID=1">>>> :> 694672)  \* 0a9990
    @@ (<<<<"USERS", "USERS">>, <<"ID=1", "ID=2">>>> :> 12429229)  \* bda7ad
    @@ (<<<<"USERS", "USERS">>, <<"ID=2", "ID=1">>>> :> 807284)  \* 0c5174
    @@ (<<<<"USERS", "USERS">>, <<"ID=2", "ID=2">>>> :> 3253968)  \* 31a6d0
    @@ (<<<<"USERS", "users">>, <<>>>> :> 5886160)  \* 59d0d0
    @@ (<<<<"USERS", "users">>, <<"ID=1">>>> :> 6422211)  \* 61fec3
    @@ (<<<<"USERS", "users">>, <<"ID=2">>>> :> 4369685)  \* 42ad15
    @@ (<<<<"USERS", "users">>, <<"ID=1", "ID=1">>>> :> 12179607)  \* b9d897
    @@ (<<<<"USERS", "users">>, <<"ID=1", "ID=2">>>> :> 3361396)  \* 334a74
    @@ (<<<<"USERS", "users">>, <<"ID=2", "ID=1">>>> :> 8970848)  \* 88e260
    @@ (<<<<"USERS", "users">>, <<"ID=2", "ID=2">>>> :> 2369054)  \* 24261e
    @@ (<<<<"users", "ORDERS">>, <<>>>> :> 3916656)  \* 3bc370
    @@ (<<<<"users", "ORDERS">>, <<"ID=1">>>> :> 6587183)  \* 64832f
    @@ (<<<<"users", "ORDERS">>, <<"ID=2">>>> :> 1533040)  \* 176470
    @@ (<<<<"users", "ORDERS">>, <<"ID=1", "ID=1">>>> :> 6046128)  \* 5c41b0
    @@ (<<<<"users", "ORDERS">>, <<"ID=1", "ID=2">>>> :> 7435102)  \* 71735e
    @@ (<<<<"users", "ORDERS">>, <<"ID=2", "ID=1">>>> :> 5552675)  \* 54ba23
    @@ (<<<<"users", "ORDERS">>, <<"ID=2", "ID=2">>>> :> 12694776)  \* c1b4f8
    @@ (<<<<"users", "USERS">>, <<>>>> :> 9814124)  \* 95c06c
    @@ (<<<<"users", "USERS">>, <<"ID=1">>>> :> 13820917)  \* d2e3f5
    @@ (<<<<"users", "USERS">>, <<"ID=2">>>> :> 16160902)  \* f69886
    @@ (<<<<"users", "USERS">>, <<"ID=1", "ID=1">>>> :> 14754542)  \* e122ee
    @@ (<<<<"users", "USERS">>, <<"ID=1", "ID=2">>>> :> 11434500)  \* ae7a04
    @@ (<<<<"users", "USERS">>, <<"ID=2", "ID=1">>>> :> 13221167)  \* c9bd2f
    @@ (<<<<"users", "USERS">>, <<"ID=2", "ID=2">>>> :> 2972013)  \* 2d596d
    @@ (<<<<"users", "users">>, <<>>>> :> 10391355)  \* 9e8f3b
    @@ (<<<<"users", "users">>, <<"ID=1">>>> :> 6691466)  \* 661a8a
    @@ (<<<<"users", "users">>, <<"ID=2">>>> :> 6441223)  \* 624907
    @@ (<<<<"users", "users">>, <<"ID=1", "ID=1">>>> :> 5683325)  \* 56b87d
    @@ (<<<<"users", "users">>, <<"ID=1", "ID=2">>>> :> 14448865)  \* dc78e1
    @@ (<<<<"users", "users">>, <<"ID=2", "ID=1">>>> :> 3420461)  \* 34312d
    @@ (<<<<"users", "users">>, <<"ID=2", "ID=2">>>> :> 5446899)  \* 531cf3

md5_hexdigest(normalized) == MD5Digests[normalized]

\* _create_query_signature
create_query_signature_unsorted(tables, conditions) ==
    md5_hexdigest(<<tables, SortedStrs(conditions)>>)

create_query_signature_tables_only(tables, conditions) ==
    md5_hexdigest(<<SortedStrs(tables), <<>>>>)

create_query_signature(tables, conditions) ==
    md5_hexdigest(<<SortedStrs(tables), SortedStrs(conditions)>>)

\* _initialize_query_group.  list(set(xs)) has no order the code fixes, so
\* the group's tables and where_conditions are kept as sets.
initialize_query_group(query, signature) ==
    [group_key        |-> signature,
     sample_sql       |-> query.sql_text,
     normalized_key   |-> <<query.tables, query.where_conditions>>,
     count            |-> 0,
     total_exec_time  |-> 0,
     tables           |-> Range(query.tables),
     schemas          |-> {},
     where_conditions |-> Range(query.where_conditions),
     priority_score   |-> 0,
     sql_ids          |-> <<>>]

\* _update_group_stats
update_group_stats_executions(group, query) ==
    [group EXCEPT !.count = @ + query.executions,
                  !.total_exec_time = @ + query.elapsed_time,
                  !.schemas = IF query.schema \notin {NoneVal, ""}
                              THEN @ \cup {query.schema} ELSE @,
                  !.sql_ids = Append(@, query.sql_id)]

update_group_stats(group, query) ==
    [group EXCEPT !.count = @ + 1,
                  !.total_exec_time = @ + query.elapsed_time,
                  !.schemas = IF query.schema \notin {NoneVal, ""}
                              THEN @ \cup {query.schema} ELSE @,
                  !.sql_ids = Append(@, query.sql_id)]

\* The unrounded score count * 0.6 + (total_exec_time / 1000) * 0.4, in
\* units of 0.0001.
RawScore(count, total_exec_time) == count * 6000 + total_exec_time * 4

\* round(x, 2) of a score given in units of 0.0001, in units of 0.01.  The
\* remainder of RawScore modulo 100 is a multiple of 4, so it is never the
\* tie 50 and rounding half up is rounding half even.
Round2(x) == (x + 50) \div 100

\* _calculate_priority_score, in units of 0.01.
calculate_priority_score_truncated(group) ==
    RawScore(group.count, group.total_exec_time) \div 100

calculate_priority_score(group) ==
    Round2(RawScore(group.count, group.total_exec_time))

\* The loop of group_similar_queries (lines 78-90): `groups` is the dict, as
\* the list of its values in insertion order.
RECURSIVE FoldQueries(_, _)
FoldQueries(groups, qs) ==
    IF qs = <<>> THEN groups
    ELSE LET query     == Head(qs)
             signature == create_query_signature(query.tables, query.where_conditions)
             known     == \E i \in 1..Len(groups) : groups[i].group_key = signature
             groups1   == IF known THEN groups
                          ELSE Append(groups, initialize_query_group(query, signature))
             k         == CHOOSE i \in 1..Len(groups1) : groups1[i].group_key = signature
         IN  FoldQueries([groups1 EXCEPT ![k] = update_group_stats(@, query)], Tail(qs))

\* Lines 94-96: the final metrics of one group.
FinalizeGroup(group) ==
    [avg_exec_time |-> Quotient(group.total_exec_time, group.count)]
    @@ [group EXCEPT !.priority_score = calculate_priority_score(group)]

\* sorted(xs, key=lambda x: x["priority_score"], reverse=True): descending
\* and stable, equal scores keep the order of xs.
RECURSIVE InsertByScore(_, _)
InsertByScore(g, s) ==
    IF s = <<>> THEN <<g>>
    ELSE IF Head(s).priority_score >= g.priority_score
         THEN <<Head(s)>> \o InsertByScore(g, Tail(s))
         ELSE <<g>> \o s

RECURSIVE SortedByPriorityScore(_)
SortedByPriorityScore(xs) ==
    IF xs = <<>> THEN <<>>
    ELSE InsertByScore(xs[Len(xs)], SortedByPriorityScore(SubSeq(xs, 1, Len(xs) - 1)))

\* group_similar_queries
group_similar_queries(qs) ==
    LET groups == FoldQueries(<<>>, qs)
    IN  SortedByPriorityScore([i \in 1..Len(groups) |-> FinalizeGroup(groups[i])])

----------------------------------------------------------------------------
(* functions/db_utils.py: what the reader's lookups answer.                *)
(* db_reader = [type, connected, size, schema, indexes]; size, schema and  *)
(* indexes are keyed by the upper-cased table name, as the SQL of the      *)
(* lookups compares with UPPER(:table_name).                               *)

\* OracleTableReader.get_table_size: a size in MB, None (no row, or an error
\* that handle_db_errors swallowed), or an exception that reaches the caller
\* (a reader whose lookup raises, as in test_classify_tables_error_handling).
get_table_size(reader, table_name) ==
    IF Upper(table_name) \in DOMAIN reader.size
    THEN reader.size[Upper(table_name)]
    ELSE [kind |-> "none", v |-> 0]

\* OracleTableReader.get_table_schema: the owner, or None.
get_table_schema(reader, table_name) ==
    IF Upper(table_name) \in DOMAIN reader.schema
    THEN reader.schema[Upper(table_name)]
    ELSE NoneVal

\* What the index query of a table comes to: Some(names) when it answers
\* rows, IndexQueryFailed when execute_query swallows a database error and
\* returns None (lines 126-145), Nothing(<<>>) when get_existing_indexes
\* itself returns None (its own handle_db_errors, or a stand-in reader).
IndexQueryFailed == [some |-> FALSE, val |-> <<"execute_query returned None">>]

\* OracleTableReader.get_existing_indexes: the list of index names, which
\* is empty when the query answered no rows or None (line 201).
get_existing_indexes(reader, table_name) ==
    IF Upper(table_name) \notin DOMAIN reader.indexes
    THEN Some(<<>>)
    ELSE IF reader.indexes[Upper(table_name)] = IndexQueryFailed
    THEN Some(<<>>)
    ELSE reader.indexes[Upper(table_name)]

\* OracleTableReader.is_connected
is_connected_first_run(reader) == reader.connected /\ run = 1

is_connected(reader) == reader.connected

\* Truth value of an optional list: None and [] are false.
Truthy(opt) == opt.some /\ opt.val # <<>>

----------------------------------------------------------------------------
(* functions/table_analysis.py                                             *)
(* A Python value is a record with its type; a list carries its items, a   *)
(* dict entry of `queries` carries whether it has the key "tables" and the *)
(* value under it.                                                         *)

PyStr(s) == [type |-> "str", val |-> s]
PyNone == [type |-> "NoneType", val |-> ""]
PyList(items) == [type |-> "list", items |-> items]
PyNoneValue == [type |-> "NoneType", items |-> <<>>]
\* A str under "tables": iterating it yields its characters, each a str.
PyStrValue(s) ==
    [type |-> "str",
     items |-> [i \in 1..Len(Ord(s)) |->
                   PyStr(CHOOSE c \in Strings : Ord(c) = <<Ord(s)[i]>>)]]
PyDict(tables) == [type |-> "dict", has_tables |-> TRUE, tables |-> tables]
PyDictNoTables == [type |-> "dict", has_tables |-> FALSE, tables |-> PyList(<<>>)]
PyNotADict == [type |-> "str", has_tables |-> FALSE, tables |-> PyList(<<>>)]

\* iter(v) succeeds for lists (and other iterables); None is not iterable.
IsIterable(v) == v.type \in {"list", "tuple", "str"}

\* query.get("tables", []) for a dict entry.
TablesOf(query) == IF query.has_tables THEN query.tables ELSE PyList(<<>>)

\* Lines 51-54: iterating a "tables" value that is not iterable raises
\* TypeError out of the comprehension.
ComprehensionRaises(qs) ==
    \E i \in 1..Len(qs) : qs[i].type = "dict" /\ ~IsIterable(TablesOf(qs[i]))

\* Lines 51-54: the set the comprehension builds.
UniqueTables(qs) ==
    {Upper(e.val) :
        e \in {t \in UNION {Range(TablesOf(qs[i]).items) :
                              i \in {j \in 1..Len(qs) : qs[j].type = "dict"}} :
                  t.type = "str" /\ StripNonEmpty(t.val)}}

\* Lines 78-83: the tier of a table of known size.
Tier_inclusive(size, threshold) == IF size <= threshold THEN "T1" ELSE "T2"

Tier(size, threshold) == IF size < threshold THEN "T1" ELSE "T2"

\* Lines 61-87: the loop over the sorted tables; `out` carries the result
\* so far and the lookups issued so far.
RECURSIVE ClassifyLoop_abort(_, _, _, _)
ClassifyLoop_abort(reader, tables, threshold, out) ==
    IF tables = <<>> THEN out
    ELSE LET table == Head(tables)
             size  == get_table_size(reader, table)
             lk1   == Append(out.lookups, <<"get_table_size", table>>)
         IN  IF size.kind # "value"
             THEN [out EXCEPT !.lookups = lk1]
             ELSE LET schema  == get_table_schema(reader, table)
                      indexes == get_existing_indexes(reader, table)
                      lk3     == lk1 \o << <<"get_table_schema", table>>,
                                           <<"get_existing_indexes", table>> >>
                      table_info == [table   |-> table,
                                     size_mb |-> size.v,
                                     schema  |-> schema,
                                     indexes |-> IF Truthy(indexes) THEN indexes
                                                 ELSE Nothing(<<>>)]
                      tier == Tier(size.v, threshold)
                  IN  ClassifyLoop_abort(reader, Tail(tables), threshold,
                          [out EXCEPT !.lookups = lk3,
                                      !.result[tier] = Append(@, table_info)])

RECURSIVE ClassifyLoop(_, _, _, _)
ClassifyLoop(reader, tables, threshold, out) ==
    IF tables = <<>> THEN out
    ELSE LET table == Head(tables)
             size  == get_table_size(reader, table)
             lk1   == Append(out.lookups, <<"get_table_size", table>>)
         IN  IF size.kind # "value"
             THEN \* size is None (line 64) or the lookup raised (line 85): continue
                  ClassifyLoop(reader, Tail(tables), threshold,
                               [out EXCEPT !.lookups = lk1])
             ELSE LET schema  == get_table_schema(reader, table)
                      indexes == get_existing_indexes(reader, table)
                      lk3     == lk1 \o << <<"get_table_schema", table>>,
                                           <<"get_existing_indexes", table>> >>
                      table_info == [table   |-> table,
                                     size_mb |-> size.v,
                                     schema  |-> schema,
                                     indexes |-> IF Truthy(indexes) THEN indexes
                                                 ELSE Nothing(<<>>)]
                      tier == Tier(size.v, threshold)
                  IN  ClassifyLoop(reader, Tail(tables), threshold,
                          [out EXCEPT !.lookups = lk3,
                                      !.result[tier] = Append(@, table_info)])

EmptyClassification == [T1 |-> <<>>, T2 |-> <<>>]

\* Lines 50-54 and 61: the tables in the order the loop visits them.
TablesToProcess_unsorted(qs) ==
    LET S == UniqueTables(qs)
    IN  IF S = {} THEN <<>>
        ELSE LET s == SortedSet(S)
             IN  [i \in 1..Len(s) |-> s[Len(s) + 1 - i]]

TablesToProcess(qs) == SortedStrs(SortedSet(UniqueTables(qs)))

\* classify_tables: [raised, result, lookups].
classify_tables_unchecked(reader, qs, threshold) ==
    IF ComprehensionRaises(qs.items)
    THEN [raised |-> "TypeError", result |-> EmptyClassification, lookups |-> <<>>]
    ELSE ClassifyLoop(reader, TablesToProcess(qs.items), threshold,
                      [raised |-> "none", result |-> EmptyClassification,
                       lookups |-> <<>>])

classify_tables_rejects_empty(reader, qs, threshold) ==
    IF reader.type # "OracleTableReader" \/ qs.type # "list"
    THEN [raised |-> "TypeError", result |-> EmptyClassification, lookups |-> <<>>]
    ELSE IF qs.items = <<>> \/ ComprehensionRaises(qs.items)
    THEN [raised |-> "TypeError", result |-> EmptyClassification, lookups |-> <<>>]
    ELSE ClassifyLoop(reader, TablesToProcess(qs.items), threshold,
                      [raised |-> "none", result |-> EmptyClassification,
                       lookups |-> <<>>])

classify_tables(reader, qs, threshold) ==
    IF reader.type # "OracleTableReader"
    THEN [raised |-> "TypeError", result |-> EmptyClassification, lookups |-> <<>>]
    ELSE IF qs.type # "list"
    THEN [raised |-> "TypeError", result |-> EmptyClassification, lookups |-> <<>>]
    ELSE IF ComprehensionRaises(qs.items)
    THEN [raised |-> "TypeError", result |-> EmptyClassification, lookups |-> <<>>]
    ELSE ClassifyLoop(reader, TablesToProcess(qs.items), threshold,
                      [raised |-> "none", result |-> EmptyClassification,
                       lookups |-> <<>>])

----------------------------------------------------------------------------
(* functions/performance_improvement.py                                    *)
(* Suggestion and impact texts are the source's, without their accents.    *)

\* Line 122, and round(gain_factor * 100, 2) of line 125: the gain factor of
\* a table size, in percent.
GainPercent_inclusive(size_mb) ==
    IF size_mb <= 10 THEN 60 ELSE IF size_mb <= 50 THEN 40 ELSE 20

GainPercent(table_size_mb) ==
    IF table_size_mb < 10 THEN 60 ELSE IF table_size_mb < 50 THEN 40 ELSE 20

\* query.get("elapsed_time", 100): query groups carry no such key.
ElapsedOrDefault(query) ==
    IF "elapsed_time" \in DOMAIN query THEN query.elapsed_time ELSE 100

\* _estimate_gain, for a table size the guard of line 118 accepts; new_time
\* in units of 0.01.
estimate_gain(query, table_size_mb) ==
    LET base_time == IF ElapsedOrDefault(query) > 1 THEN ElapsedOrDefault(query) ELSE 1
    IN  [estimated_gain_percent |-> GainPercent(table_size_mb),
         old_time |-> base_time,
         new_time |-> base_time * (100 - GainPercent(table_size_mb)),
         schema   |-> IF "schema" \in DOMAIN query THEN query.schema ELSE NoneVal,
         sql_id   |-> IF "sql_id" \in DOMAIN query THEN Some(query.sql_id)
                      ELSE Nothing(0)]

\* What the caller of _estimate_gain holds before the call.
NotEstimated ==
    [raised |-> "none",
     value  |-> [estimated_gain_percent |-> 0, old_time |-> 0, new_time |-> 0,
                 schema |-> NoneVal, sql_id |-> Nothing(0)]]

\* _estimate_gain with its guards (lines 115-119): `q` is [type, val], val
\* being the dict when type is "dict"; sizes are numbers.
estimate_gain_call(q, size_mb) ==
    IF q.type # "dict" \/ size_mb < 0
    THEN [NotEstimated EXCEPT !.raised = "ValueError"]
    ELSE [raised |-> "none", value |-> estimate_gain(q.val, size_mb)]

\* Lines 60-68: the suggestion for one T1 table.
T1Solution_inverted(reader, table_info) ==
    LET indexes == get_existing_indexes(reader, table_info.table)
    IN  [table            |-> table_info.table,
         size_mb          |-> table_info.size_mb,
         category         |-> "T1",
         suggestion       |-> IF Truthy(indexes) THEN "criar indice"
                              ELSE "indice ja existe",
         existing_indexes |-> indexes,
         priority_score   |-> IF Truthy(indexes) THEN 8 ELSE 2,
         impact           |-> IF Truthy(indexes) THEN "Alta" ELSE "Baixa"]

T1Solution(reader, table_info) ==
    LET indexes == get_existing_indexes(reader, table_info.table)
    IN  [table            |-> table_info.table,
         size_mb          |-> table_info.size_mb,
         category         |-> "T1",
         suggestion       |-> IF ~Truthy(indexes) THEN "criar indice"
                              ELSE "indice ja existe",
         existing_indexes |-> indexes,
         priority_score   |-> IF ~Truthy(indexes) THEN 8 ELSE 2,
         impact           |-> IF ~Truthy(indexes) THEN "Alta" ELSE "Baixa"]

\* Lines 84-87: the queries whose "tables" hold table_name, in list order.
RelevantQueries(qs, table_name) ==
    SelectSeq(qs, LAMBDA q : table_name \in q.tables)

RECURSIVE SumGain(_, _)
SumGain(qs, size_mb) ==
    IF qs = <<>> THEN 0
    ELSE estimate_gain(Head(qs), size_mb).estimated_gain_percent
         + SumGain(Tail(qs), size_mb)

\* Line 99: the sql_id of the relevant queries that have one (query groups
\* have the key sql_ids instead, and add nothing).
QueriesAffected(relevant_queries) ==
    LET with == SelectSeq(relevant_queries, LAMBDA q : "sql_id" \in DOMAIN q)
    IN  [i \in 1..Len(with) |-> with[i].sql_id]

\* Lines 81-104: the suggestion for one T2 table.  Every term of the mean
\* is the gain of the same table size, so the division is exact.
T2Solution_inclusive(reader, table_info, qs) ==
    LET size_mb == table_info.size_mb
        indexes == get_existing_indexes(reader, table_info.table)
        relevant_queries == RelevantQueries(qs, table_info.table)
        gain == IF relevant_queries # <<>>
                THEN SumGain(relevant_queries, size_mb) \div Len(relevant_queries)
                ELSE 0
    IN  [table            |-> table_info.table,
         size_mb          |-> size_mb,
         category         |-> "T2",
         suggestion       |-> IF Truthy(indexes) THEN "refatorar query ou particionar"
                              ELSE "considerar indice",
         queries_affected |-> QueriesAffected(relevant_queries),
         avg_gain_percent |-> gain,
         existing_indexes |-> indexes,
         priority_score   |-> IF gain >= 20 THEN 9 ELSE IF gain > 0 THEN 7 ELSE 5,
         impact           |-> IF gain >= 20 THEN "Critico"
                              ELSE IF gain > 0 THEN "Medio" ELSE "Baixo"]

T2Solution(reader, table_info, qs) ==
    LET size_mb == table_info.size_mb
        indexes == get_existing_indexes(reader, table_info.table)
        relevant_queries == RelevantQueries(qs, table_info.table)
        gain == IF relevant_queries # <<>>
                THEN SumGain(relevant_queries, size_mb) \div Len(relevant_queries)
                ELSE 0
    IN  [table            |-> table_info.table,
         size_mb          |-> size_mb,
         category         |-> "T2",
         suggestion       |-> IF Truthy(indexes) THEN "refatorar query ou particionar"
                              ELSE "considerar indice",
         queries_affected |-> QueriesAffected(relevant_queries),
         avg_gain_percent |-> gain,
         existing_indexes |-> indexes,
         priority_score   |-> IF gain > 20 THEN 9 ELSE IF gain > 0 THEN 7 ELSE 5,
         impact           |-> IF gain > 20 THEN "Critico"
                              ELSE IF gain > 0 THEN "Medio" ELSE "Baixo"]

\* evaluate_performance: [raised, solutions, lookups].  `tables` is the dict
\* that classify_tables returned and its entries are dicts with a name, so
\* the guards of lines 32, 49, 54, 72 and 77 pass; `qs` is `queries or []`.
evaluate_performance_t2_first(reader, tables, qs) ==
    IF reader.type # "OracleTableReader"
    THEN [raised |-> "TypeError", solutions |-> <<>>, lookups |-> <<>>]
    ELSE IF ~is_connected(reader)
    THEN [raised |-> "none", solutions |-> <<>>, lookups |-> <<>>]
    ELSE IF \E i \in 1..Len(tables.T2) :
                /\ tables.T2[i].size_mb < 0       \* _estimate_gain raises ValueError
                /\ RelevantQueries(qs, tables.T2[i].table) # <<>>
    THEN [raised |-> "RuntimeError", solutions |-> <<>>, lookups |-> <<>>]
    ELSE [raised |-> "none",
          solutions |->
              [i \in 1..Len(tables.T2) |-> T2Solution(reader, tables.T2[i], qs)]
              \o [i \in 1..Len(tables.T1) |-> T1Solution(reader, tables.T1[i])],
          lookups |->
              [i \in 1..Len(tables.T1) |->
                   <<"get_existing_indexes", tables.T1[i].table>>]
              \o [i \in 1..Len(tables.T2) |->
                      <<"get_existing_indexes", tables.T2[i].table>>]]

evaluate_performance(reader, tables, qs) ==
    IF reader.type # "OracleTableReader"
    THEN [raised |-> "TypeError", solutions |-> <<>>, lookups |-> <<>>]
    ELSE IF ~is_connected(reader)
    THEN [raised |-> "none", solutions |-> <<>>, lookups |-> <<>>]
    ELSE IF \E i \in 1..Len(tables.T2) :
                /\ tables.T2[i].size_mb < 0       \* _estimate_gain raises ValueError
                /\ RelevantQueries(qs, tables.T2[i].table) # <<>>
    THEN [raised |-> "RuntimeError", solutions |-> <<>>, lookups |-> <<>>]
    ELSE [raised |-> "none",
          solutions |->
              [i \in 1..Len(tables.T1) |-> T1Solution(reader, tables.T1[i])]
              \o [i \in 1..Len(tables.T2) |-> T2Solution(reader, tables.T2[i], qs)],
          lookups |->
              [i \in 1..Len(tables.T1) |->
                   <<"get_existing_indexes", tables.T1[i].table>>]
              \o [i \in 1..Len(tables.T2) |->
                      <<"get_existing_indexes", tables.T2[i].table>>]]

----------------------------------------------------------------------------
(* Inputs.                                                                 *)

\* A parsed query, as identify_fts_queries builds it (lines 45-53).  sql_id
\* identifies the statement, so it stands for sql_text too; the row's schema
\* is the owner of its first table.
Query(i, tables, where_conditions, stats) ==
    [sql_id           |-> i,
     sql_text         |-> i,
     executions       |-> stats.executions,
     elapsed_time     |-> stats.elapsed_time,
     tables           |-> tables,
     where_conditions |-> where_conditions,
     schema           |-> IF tables = <<>> THEN NoneVal ELSE "APP"]

Stat(executions, elapsed_time) ==
    [executions |-> executions, elapsed_time |-> elapsed_time]

\* The list of the queries whose features are f[1], f[2], ...; the i-th has
\* sql_id i.
QueriesOf(f) ==
    [i \in DOMAIN f |-> Query(i, f[i].tables, f[i].where_conditions, f[i].stats)]

TableLists == {<<"USERS">>, <<"ORDERS", "USERS">>, <<"USERS", "ORDERS">>}
CondLists == {<<"ID=1">>, <<"ID=2">>, <<"ID=1", "ID=2">>, <<"ID=2", "ID=1">>}
Stats == {Stat(10, 1000), Stat(5, 2000), Stat(1, 40)}

GroupShapes == [tables : TableLists, where_conditions : CondLists, stats : Stats]

Tables == {"ORDERS", "USERS"}

SizeValue(v) == [kind |-> "value", v |-> v]
SizeNone == [kind |-> "none", v |-> 0]
SizeRaises == [kind |-> "raise", v |-> 0]

NoReader ==
    [type |-> "NoneType", connected |-> FALSE,
     size |-> [t \in Tables |-> SizeNone],
     schema |-> [t \in Tables |-> NoneVal],
     indexes |-> [t \in Tables |-> Some(<<>>)]]

\* The connected readers whose lookups answer as one of the given maps.
Readers(SizeMaps, SchemaMaps, IndexMaps) ==
    [type : {"OracleTableReader"}, connected : {TRUE},
     size : SizeMaps, schema : SchemaMaps, indexes : IndexMaps]

NoIndexes == [t \in Tables |-> Some(<<>>)]
IndexOnUsers == [t \in Tables |-> IF t = "USERS" THEN Some(<<"PK">>) ELSE Some(<<>>)]
IndexOnOrders == [t \in Tables |-> IF t = "ORDERS" THEN Some(<<"PK">>) ELSE Some(<<>>)]
OwnedByApp == [t \in Tables |-> "APP"]

EmptyQueriesArg == PyList(<<>>)

\* execute_query answered an empty list of rows.
NoRows == [kind |-> "rows", rows |-> <<>>]

\* The `query` argument of _estimate_gain: a dict, or a value that is none.
DictQuery(d) == [type |-> "dict", val |-> d]
NoQuery == [type |-> "NoneType", val |-> [sql_id |-> 0]]

----------------------------------------------------------------------------
(* State outside the pipeline functions: the execution controller's config *)
(* file and instances (main.py, ExecutionController), the trace of         *)
(* OracleMonitor.run and the output directory of the script generator.      *)

\* An option that a section of a ConfigParser does not hold.
MissingOption == "<missing>"

\* configparser.ConfigParser(): no section Execution.  LAST_RUN_TIMESTAMP is
\* written and never read, and is left out.
EmptyConfig ==
    [has_section |-> FALSE, FIRST_RUN |-> MissingOption,
     NEXT_RUN_TIMESTAMP |-> MissingOption]

\* A config whose section Execution holds the given options.
ExecutionSection(first_run, next_run) ==
    [has_section |-> TRUE, FIRST_RUN |-> first_run, NEXT_RUN_TIMESTAMP |-> next_run]

\* The file at config_path: absent, or holding a config.
NoConfigFile == [exists |-> FALSE, content |-> EmptyConfig]
ConfigFile(content) == [exists |-> TRUE, content |-> content]

\* The instances that share one config_path.
ControllerIds == {"A", "B"}

NotConstructed == [constructed |-> FALSE, config |-> EmptyConfig]

monitorVars == <<config_file, controllers, first_run_returns, run_calls, run_returned,
                 sg_solutions, saves, generated_files, output_dir>>

\* No controller constructed, no run started, nothing generated.
MonitorIdle ==
    /\ config_file = NoConfigFile
    /\ controllers = [c \in ControllerIds |-> NotConstructed]
    /\ first_run_returns = <<>>
    /\ run_calls = <<>>
    /\ run_returned = "pending"
    /\ sg_solutions = PyList(<<>>)
    /\ saves = <<>>
    /\ generated_files = <<>>
    /\ output_dir = {}

----------------------------------------------------------------------------
(* Specification of the grouper alone: any list of parsed queries is       *)
(* handed to group_similar_queries.                                        *)

InitGroup ==
    /\ pc = "start"
    /\ \E n \in 0..MaxQueries : \E f \in [1..n -> GroupShapes] : queries = QueriesOf(f)
    /\ grouped_queries = <<>>
    /\ db_reader = NoReader
    /\ cl_queries = EmptyQueriesArg
    /\ size_threshold = 10
    /\ classified_tables = EmptyClassification
    /\ lookups = <<>>
    /\ raised = "none"
    /\ solutions = <<>>
    /\ returned = "pending"
    /\ results = NoRows
    /\ ev_queries = Nothing(<<>>)
    /\ eg_query = NoQuery
    /\ eg_table_size_mb = 0
    /\ estimate = NotEstimated
    /\ run = 1
    /\ prev_solutions = <<>>
    /\ MonitorIdle

GroupCall ==
    /\ pc = "start"
    /\ grouped_queries' = group_similar_queries(queries)
    /\ pc' = "grouped"
    /\ UNCHANGED <<queries, db_reader, cl_queries, size_threshold,
                   classified_tables, lookups, raised, solutions, returned,
                   results, ev_queries, eg_query, eg_table_size_mb, estimate, run,
                   prev_solutions,
                   monitorVars>>

NextGroup == GroupCall

SpecGroup == InitGroup /\ [][NextGroup]_vars

----------------------------------------------------------------------------
(* Claims about the grouper (checked under SpecGroup).                     *)

\* All rearrangements of the list s.
Rearrangements(s) ==
    {[i \in 1..Len(s) |-> s[p[i]]] : p \in Permutations(1..Len(s))}

\* The groups of the result that hold the query with this sql_id.
GroupsOf(sql_id) ==
    {k \in 1..Len(grouped_queries) : sql_id \in Range(grouped_queries[k].sql_ids)}

\* The input queries folded into group g, in input order.
Members(g) == SelectSeq(queries, LAMBDA q : q.sql_id \in Range(g.sql_ids))

RECURSIVE SumExecutions(_)
SumExecutions(qs) ==
    IF qs = <<>> THEN 0 ELSE Head(qs).executions + SumExecutions(Tail(qs))

RECURSIVE SumElapsed(_)
SumElapsed(qs) ==
    IF qs = <<>> THEN 0 ELSE Head(qs).elapsed_time + SumElapsed(Tail(qs))

\* C1: the signature of a query does not depend on the order of its tables
\* or of its conditions: every rearrangement of the two lists of every input
\* query has the signature of the lists as given.
C1_SignatureOrderIndependent ==
    \A i \in 1..Len(queries) :
        \A T \in Rearrangements(queries[i].tables) :
            \A C \in Rearrangements(queries[i].where_conditions) :
                create_query_signature(T, C)
                    = create_query_signature(queries[i].tables,
                                             queries[i].where_conditions)

\* Two queries that list the same two tables and the same two conditions in
\* opposite orders have been grouped.
C1_Witness ==
    /\ pc = "grouped"
    /\ Len(grouped_queries) = 1
    /\ \E i, j \in 1..Len(queries) :
        /\ queries[i].tables = <<"USERS", "ORDERS">>
        /\ queries[j].tables = <<"ORDERS", "USERS">>
        /\ queries[i].where_conditions = <<"ID=2", "ID=1">>
        /\ queries[j].where_conditions = <<"ID=1", "ID=2">>

SameFeatures(q1, q2) ==
    /\ SortedStrs(q1.tables) = SortedStrs(q2.tables)
    /\ SortedStrs(q1.where_conditions) = SortedStrs(q2.where_conditions)

\* C2: after grouping, two input queries are in the same group exactly when
\* their sorted table lists and their sorted condition lists are equal; every
\* query is in exactly one group, and a group is the one created for its
\* first member (its sample is that member's statement).
C2_GroupedIffSameFeatures ==
    pc = "grouped" =>
        /\ \A i, j \in 1..Len(queries) :
               (GroupsOf(queries[i].sql_id) \cap GroupsOf(queries[j].sql_id) # {})
                   <=> SameFeatures(queries[i], queries[j])
        /\ \A i \in 1..Len(queries) : Cardinality(GroupsOf(queries[i].sql_id)) = 1
        /\ \A k \in 1..Len(grouped_queries) :
               /\ grouped_queries[k].sql_ids # <<>>
               /\ grouped_queries[k].sample_sql = grouped_queries[k].sql_ids[1]

\* 'ID=1' and 'ID=2' on the same table are in two groups, and elsewhere two
\* queries with the same features share one.
C2_Witness ==
    /\ pc = "grouped"
    /\ Len(queries) = 2
    /\ queries[1].tables = <<"USERS">> /\ queries[2].tables = <<"USERS">>
    /\ queries[1].where_conditions = <<"ID=1">>
    /\ queries[2].where_conditions = <<"ID=2">>
    /\ Len(grouped_queries) = 2

\* C3 as stated: a group's count is the sum of its members' executions, its
\* total is the sum of their elapsed times, its average is total / count.
C3_CountIsSumOfExecutions ==
    pc = "grouped" =>
        \A k \in 1..Len(grouped_queries) :
            LET g == grouped_queries[k]
            IN  /\ g.count = SumExecutions(Members(g))
                /\ g.total_exec_time = SumElapsed(Members(g))
                /\ g.avg_exec_time = Quotient(g.total_exec_time, g.count)

\* C3 as amended: a group's count is the number of its member queries
\* (whatever their executions), its total is the sum of their elapsed times,
\* and its average is total / count.
C3_CountIsNumberOfMembers ==
    pc = "grouped" =>
        \A k \in 1..Len(grouped_queries) :
            LET g == grouped_queries[k]
            IN  /\ g.count = Len(Members(g))
                /\ g.count = Len(g.sql_ids)
                /\ g.total_exec_time = SumElapsed(Members(g))
                /\ g.avg_exec_time.num * g.count
                       = g.total_exec_time * g.avg_exec_time.den

\* A group of two members with 10 and 5 executions.
C3_Witness ==
    /\ pc = "grouped"
    /\ \E k \in 1..Len(grouped_queries) :
        /\ grouped_queries[k].count = 2
        /\ SumExecutions(Members(grouped_queries[k])) = 15
        /\ grouped_queries[k].total_exec_time = 3000

\* C5 as stated: the score is exactly count * 0.6 + (total / 1000) * 0.4
\* (both sides in units of 0.0001).
C5_ScoreIsExactFormula ==
    pc = "grouped" =>
        \A k \in 1..Len(grouped_queries) :
            grouped_queries[k].priority_score * 100
                = RawScore(grouped_queries[k].count, grouped_queries[k].total_exec_time)

\* C5 as amended: the score is count * 0.6 + (total / 1000) * 0.4 rounded to
\* two decimals, computed from the final count and total; a group with no
\* smaller count and no smaller total than another has no smaller score.
C5_ScoreIsRoundedFormula ==
    pc = "grouped" =>
        /\ \A k \in 1..Len(grouped_queries) :
               LET g == grouped_queries[k]
                   raw == RawScore(Len(g.sql_ids), SumElapsed(Members(g)))
               IN  /\ 100 * g.priority_score - 50 <= raw
                   /\ raw < 100 * g.priority_score + 50
        /\ \A k, l \in 1..Len(grouped_queries) :
               (/\ grouped_queries[k].count <= grouped_queries[l].count
                /\ grouped_queries[k].total_exec_time <= grouped_queries[l].total_exec_time)
                   => grouped_queries[k].priority_score <= grouped_queries[l].priority_score

\* A group whose unrounded score 0.616 is not a multiple of 0.01.
C5_Witness ==
    /\ pc = "grouped"
    /\ \E k \in 1..Len(grouped_queries) :
        /\ grouped_queries[k].count = 1
        /\ grouped_queries[k].total_exec_time = 40
        /\ grouped_queries[k].priority_score = 62

\* C6: the result is sorted by priority_score descending, and groups of
\* equal score are in ascending order of group_key.
C6_SortedWithSignatureTieBreak ==
    pc = "grouped" =>
        \A k, l \in 1..Len(grouped_queries) :
            k < l =>
                \/ grouped_queries[k].priority_score > grouped_queries[l].priority_score
                \/ /\ grouped_queries[k].priority_score = grouped_queries[l].priority_score
                   /\ grouped_queries[k].group_key < grouped_queries[l].group_key

----------------------------------------------------------------------------
(* Specification of the classifier alone: classify_tables is called with   *)
(* any reader, any `queries` value and the default or a custom threshold.  *)

DefaultSizeThreshold == 10
CustomSizeThreshold == 20

\* Values found under "tables": lists of names in both cases, the list of
\* test_classify_tables_mixed_query_formats that holds no usable name, a
\* list with a blank name, a str in place of the list (as "not_a_list" in
\* that test), and None.
TablesValues ==
    {PyList(<<PyStr("users")>>),
     PyList(<<PyStr("users"), PyStr("orders")>>),
     PyList(<<PyStr("ORDERS"), PyStr("USERS")>>),
     PyList(<<PyNone, PyStr("")>>),
     PyList(<<PyStr(" "), PyStr("orders")>>),
     PyStrValue("us"),
     PyNoneValue}

QueryEntries == {PyDict(v) : v \in TablesValues} \cup {PyDictNoTables, PyNotADict}

NotAList == [type |-> "str", items |-> <<>>]

ClassifySizeAnswers == {SizeNone, SizeRaises, SizeValue(5), SizeValue(10), SizeValue(20)}

InitClassify ==
    /\ pc = "start"
    /\ queries = <<>>
    /\ grouped_queries = <<>>
    /\ db_reader \in {NoReader}
           \cup Readers([Tables -> ClassifySizeAnswers], {OwnedByApp},
                        {NoIndexes, IndexOnUsers})
    /\ \/ cl_queries = NotAList
       \/ \E n \in 0..MaxQueries : \E items \in [1..n -> QueryEntries] :
              cl_queries = PyList(items)
    /\ size_threshold \in {DefaultSizeThreshold, CustomSizeThreshold}
    /\ classified_tables = EmptyClassification
    /\ lookups = <<>>
    /\ raised = "none"
    /\ solutions = <<>>
    /\ returned = "pending"
    /\ results = NoRows
    /\ ev_queries = Nothing(<<>>)
    /\ eg_query = NoQuery
    /\ eg_table_size_mb = 0
    /\ estimate = NotEstimated
    /\ run = 1
    /\ prev_solutions = <<>>
    /\ MonitorIdle

ClassifyCall ==
    /\ pc = "start"
    /\ LET out == classify_tables(db_reader, cl_queries, size_threshold)
       IN  /\ classified_tables' = out.result
           /\ lookups' = out.lookups
           /\ raised' = out.raised
    /\ pc' = "classified"
    /\ UNCHANGED <<queries, grouped_queries, db_reader, cl_queries, size_threshold,
                   solutions, returned,
                   results, ev_queries, eg_query, eg_table_size_mb, estimate, run,
                   prev_solutions,
                   monitorVars>>

NextClassify == ClassifyCall

SpecClassify == InitClassify /\ [][NextClassify]_vars

----------------------------------------------------------------------------
(* Claims about the classifier (checked under SpecClassify).               *)

TableNames(infos) == {infos[i].table : i \in 1..Len(infos)}

ClassifiedNames ==
    TableNames(classified_tables.T1) \cup TableNames(classified_tables.T2)

\* The call passes the checks of lines 36-42 and its comprehension completes.
WellTypedCall ==
    /\ db_reader.type = "OracleTableReader"
    /\ cl_queries.type = "list"
    /\ ~ComprehensionRaises(cl_queries.items)

\* The upper-cased names the call asks about.
RequestedTables == UniqueTables(cl_queries.items)

StrictlyAscending(names) ==
    \A i, j \in 1..Len(names) : i < j => StrLess(names[i], names[j])

\* C7: a table of known size s is in T1 exactly when s < size_threshold and
\* in T2 exactly when s >= size_threshold, for the default threshold and for
\* a custom one; a table whose size is the threshold is in T2.
C7_TierBySizeHalfOpen ==
    (pc = "classified" /\ WellTypedCall) =>
        \A t \in RequestedTables :
            LET size == get_table_size(db_reader, t)
            IN  size.kind = "value" =>
                    /\ t \in TableNames(classified_tables.T1) <=> size.v < size_threshold
                    /\ t \in TableNames(classified_tables.T2) <=> size.v >= size_threshold
                    /\ \A i \in 1..Len(classified_tables.T1) :
                           classified_tables.T1[i].table = t
                               => classified_tables.T1[i].size_mb = size.v
                    /\ \A i \in 1..Len(classified_tables.T2) :
                           classified_tables.T2[i].table = t
                               => classified_tables.T2[i].size_mb = size.v

\* Under the custom threshold 20, a table of exactly 20 MB is in T2 while a
\* table of 10 MB is in T1.
C7_Witness ==
    /\ pc = "classified"
    /\ size_threshold = CustomSizeThreshold
    /\ \E i \in 1..Len(classified_tables.T2) :
           classified_tables.T2[i].size_mb = size_threshold
    /\ \E i \in 1..Len(classified_tables.T1) :
           classified_tables.T1[i].size_mb = DefaultSizeThreshold

\* C8: whichever size lookups return None or raise, a well-typed call
\* returns normally, and its result holds exactly the requested tables whose
\* size lookup returned a value.
C8_FailedLookupSkipsOnlyThatTable ==
    (pc = "classified" /\ WellTypedCall) =>
        /\ raised = "none"
        /\ ClassifiedNames =
               {t \in RequestedTables : get_table_size(db_reader, t).kind = "value"}

\* The size lookup of ORDERS, the first table visited, raised, and USERS,
\* visited after it, is in the result.
C8_Witness ==
    /\ pc = "classified"
    /\ RequestedTables = {"ORDERS", "USERS"}
    /\ get_table_size(db_reader, "ORDERS").kind = "raise"
    /\ ClassifiedNames = {"USERS"}

\* The tables whose size was looked up, in call order.
SizeLookups ==
    LET calls == SelectSeq(lookups, LAMBDA c : c[1] = "get_table_size")
    IN  [i \in 1..Len(calls) |-> calls[i][2]]

\* The entry with the names under "tables" rearranged in every way.
EntryVariants(e) ==
    IF e.type = "dict" /\ e.tables.type = "list"
    THEN {[e EXCEPT !.tables.items = r] : r \in Rearrangements(e.tables.items)}
    ELSE {e}

\* The lists that take their i-th element from sets[i].
RECURSIVE Product(_)
Product(sets) ==
    IF sets = <<>> THEN {<<>>}
    ELSE {<<h>> \o t : h \in Head(sets), t \in Product(Tail(sets))}

\* Every list that holds the entries of `items` in some order, each with its
\* names in some order.
ItemsVariants(items) ==
    UNION {Product([i \in 1..Len(items) |-> EntryVariants(items[p[i]])]) :
              p \in Permutations(1..Len(items))}

\* C9: sizes are looked up in ascending order of the upper-cased names, T1
\* and T2 are each strictly ascending by name, no upper-cased name is listed
\* twice across T1 and T2, and every reordering of the queries and of the
\* names inside them gives the same result.
C9_OrderedAndReproducible ==
    (pc = "classified" /\ WellTypedCall) =>
        /\ SizeLookups = SortedSet(RequestedTables)
        /\ StrictlyAscending(SizeLookups)
        /\ StrictlyAscending([i \in 1..Len(classified_tables.T1) |->
                                  classified_tables.T1[i].table])
        /\ StrictlyAscending([i \in 1..Len(classified_tables.T2) |->
                                  classified_tables.T2[i].table])
        /\ TableNames(classified_tables.T1) \cap TableNames(classified_tables.T2) = {}
        /\ \A t \in ClassifiedNames : Upper(t) = t
        /\ \A items \in ItemsVariants(cl_queries.items) :
               classify_tables(db_reader, PyList(items), size_threshold).result
                   = classified_tables

\* "users" then "orders" in one query and "ORDERS", "USERS" in another: two
\* tables, both in T1, ORDERS first.
C9_Witness ==
    /\ pc = "classified"
    /\ Len(cl_queries.items) = 2
    /\ cl_queries.items[1] = PyDict(PyList(<<PyStr("users"), PyStr("orders")>>))
    /\ cl_queries.items[2] = PyDict(PyList(<<PyStr("ORDERS"), PyStr("USERS")>>))
    /\ Len(classified_tables.T1) = 2
    /\ classified_tables.T1[1].table = "ORDERS"
    /\ classified_tables.T1[2].table = "USERS"
    /\ SizeLookups = <<"ORDERS", "USERS">>

\* Some name supplied under "tables" is not a string, or the value under
\* "tables" is not a list.
NamesNotStrings ==
    /\ cl_queries.type = "list"
    /\ \E i \in 1..Len(cl_queries.items) :
        /\ cl_queries.items[i].type = "dict"
        /\ \/ TablesOf(cl_queries.items[i]).type # "list"
           \/ \E e \in Range(TablesOf(cl_queries.items[i]).items) : e.type # "str"

\* C10 as stated: a reader that is no OracleTableReader, a `queries` that is
\* no list, or table names that are no collection of strings make the call
\* raise TypeError before any lookup.
C10_MalformedInputRaises ==
    (/\ pc = "classified"
     /\ \/ db_reader.type # "OracleTableReader"
        \/ cl_queries.type # "list"
        \/ NamesNotStrings)
        => (raised = "TypeError" /\ lookups = <<>>)

\* C10 as amended: the call raises TypeError, before any lookup and with
\* nothing classified, exactly when the reader is no OracleTableReader, or
\* `queries` is no list, or a dict entry holds under "tables" a value that
\* cannot be iterated; entries that are no dicts and names that are no
\* strings or are blank are skipped without an error.
C10_TypeErrorOnlyForReaderListOrNonIterable ==
    pc = "classified" =>
        /\ raised \in {"none", "TypeError"}
        /\ raised = "TypeError" <=>
               \/ db_reader.type # "OracleTableReader"
               \/ cl_queries.type # "list"
               \/ \E i \in 1..Len(cl_queries.items) :
                      /\ cl_queries.items[i].type = "dict"
                      /\ cl_queries.items[i].has_tables
                      /\ cl_queries.items[i].tables.type = "NoneType"
        /\ raised = "TypeError" =>
               (lookups = <<>> /\ classified_tables = EmptyClassification)

\* A call whose queries hold [None, ""] under "tables" next to a usable name
\* returned normally after looking tables up; and the reader check comes
\* first.
C10_Witness ==
    /\ pc = "classified"
    /\ raised = "none"
    /\ lookups # <<>>
    /\ \E i \in 1..Len(cl_queries.items) :
           cl_queries.items[i] = PyDict(PyList(<<PyNone, PyStr("")>>))

\* The names C11 counts: the upper-cased non-blank strings found in the
\* "tables" values that are lists.
NamesInListValuedTables ==
    {Upper(e.val) :
        e \in {t \in UNION {Range(cl_queries.items[i].tables.items) :
                              i \in {j \in 1..Len(cl_queries.items) :
                                        /\ cl_queries.items[j].type = "dict"
                                        /\ cl_queries.items[j].has_tables
                                        /\ cl_queries.items[j].tables.type = "list"}} :
                  t.type = "str" /\ StripNonEmpty(t.val)}}

\* C11 as stated: entries that are no dicts, have no "tables", hold under
\* "tables" a value that is no list, or hold names that are no non-blank
\* strings add nothing: the tables looked up and the tables classified are
\* among the upper-cased non-blank strings of the list-valued "tables".
C11_MalformedEntriesContributeNothing ==
    (pc = "classified" /\ WellTypedCall) =>
        /\ Range(SizeLookups) = NamesInListValuedTables
        /\ ClassifiedNames \subseteq NamesInListValuedTables

----------------------------------------------------------------------------
(* Specification of the pipeline: OracleMonitor.process_fts_queries        *)
(* (main.py lines 131-148) from the list that identify_fts_queries         *)
(* returned: group_similar_queries, classify_tables on the groups with the *)
(* default threshold, evaluate_performance on the classification.          *)

PipelineShapes ==
    [tables : {<<"USERS">>, <<"ORDERS", "users">>},
     where_conditions : {<<"ID=1">>, <<"ID=2">>},
     stats : {Stat(10, 1000), Stat(5, 2000)}]

PipelineReaders ==
    Readers([Tables -> {SizeNone, SizeValue(5), SizeValue(50)}], {OwnedByApp},
            {NoIndexes, IndexOnUsers, IndexOnOrders})

\* A query group as classify_tables reads it: a dict whose "tables" is the
\* list of the group's tables.
GroupAsEntry(group) ==
    LET names == SortedSet(group.tables)
    IN  PyDict(PyList([i \in 1..Len(names) |-> PyStr(names[i])]))

Init ==
    /\ pc = "identified"
    /\ \E n \in 0..MaxQueries : \E f \in [1..n -> PipelineShapes] : queries = QueriesOf(f)
    /\ grouped_queries = <<>>
    /\ db_reader \in PipelineReaders
    /\ cl_queries = EmptyQueriesArg
    /\ size_threshold = DefaultSizeThreshold
    /\ classified_tables = EmptyClassification
    /\ lookups = <<>>
    /\ raised = "none"
    /\ solutions = <<>>
    /\ returned = "pending"
    /\ results = NoRows
    /\ ev_queries = Nothing(<<>>)
    /\ eg_query = NoQuery
    /\ eg_table_size_mb = 0
    /\ estimate = NotEstimated
    /\ run = 1
    /\ prev_solutions = <<>>
    /\ MonitorIdle

\* Lines 134-136: nothing identified.
ReturnNoQueries ==
    /\ pc = "identified"
    /\ queries = <<>>
    /\ returned' = "False"
    /\ pc' = "done"
    /\ UNCHANGED <<queries, grouped_queries, db_reader, cl_queries, size_threshold,
                   classified_tables, lookups, raised, solutions,
                   results, ev_queries, eg_query, eg_table_size_mb, estimate, run,
                   prev_solutions,
                   monitorVars>>

\* Line 138
Group ==
    /\ pc = "identified"
    /\ queries # <<>>
    /\ grouped_queries' = group_similar_queries(queries)
    /\ pc' = "grouped"
    /\ UNCHANGED <<queries, db_reader, cl_queries, size_threshold,
                   classified_tables, lookups, raised, solutions, returned,
                   results, ev_queries, eg_query, eg_table_size_mb, estimate, run,
                   prev_solutions,
                   monitorVars>>

\* Line 141; an exception is caught at line 146 and ends the call.
Classify ==
    /\ pc = "grouped"
    /\ cl_queries' = PyList([i \in 1..Len(grouped_queries) |->
                                GroupAsEntry(grouped_queries[i])])
    /\ LET out == classify_tables(db_reader, cl_queries', size_threshold)
       IN  /\ classified_tables' = out.result
           /\ lookups' = lookups \o out.lookups
           /\ raised' = out.raised
           /\ pc' = IF out.raised = "none" THEN "classified" ELSE "done"
           /\ returned' = IF out.raised = "none" THEN returned ELSE "False"
    /\ UNCHANGED <<queries, grouped_queries, db_reader, size_threshold, solutions,
                   results, ev_queries, eg_query, eg_table_size_mb, estimate, run,
                   prev_solutions,
                   monitorVars>>

\* Line 142: evaluate_performance(db_reader, classified_tables), queries=None.
Evaluate ==
    /\ pc = "classified"
    /\ LET out == evaluate_performance(db_reader, classified_tables, <<>>)
       IN  /\ solutions' = out.solutions
           /\ lookups' = lookups \o out.lookups
           /\ raised' = out.raised
           /\ pc' = IF out.raised = "none" THEN "evaluated" ELSE "done"
           /\ returned' = IF out.raised = "none" THEN returned ELSE "False"
    /\ UNCHANGED <<queries, grouped_queries, db_reader, cl_queries, size_threshold,
                   classified_tables,
                   results, ev_queries, eg_query, eg_table_size_mb, estimate, run,
                   prev_solutions,
                   monitorVars>>

Next == ReturnNoQueries \/ Group \/ Classify \/ Evaluate

Spec == Init /\ [][Next]_vars

----------------------------------------------------------------------------
(* Claims about the pipeline (checked under Spec).                         *)

\* The two queries of the end-to-end scenario, as parsed: both on USERS,
\* with the conditions ID=1 and ID=2.
ScenarioQueries ==
    <<Query(1, <<"USERS">>, <<"ID=1">>, Stat(10, 1000)),
      Query(2, <<"USERS">>, <<"ID=2">>, Stat(5, 2000))>>

\* The scenario has run to the end: USERS has 5 MB and no index.
ScenarioEvaluated ==
    /\ pc = "evaluated"
    /\ queries = ScenarioQueries
    /\ get_table_size(db_reader, "USERS") = SizeValue(5)
    /\ get_existing_indexes(db_reader, "USERS") = Some(<<>>)

\* USERS is in T1 and has one suggestion, and no other table has one:
\* create index, score 8, high impact.
ScenarioSuggestion ==
    /\ TableNames(classified_tables.T1) = {"USERS"}
    /\ classified_tables.T2 = <<>>
    /\ Len(solutions) = 1
    /\ solutions[1].table = "USERS"
    /\ solutions[1].category = "T1"
    /\ solutions[1].suggestion = "criar indice"
    /\ solutions[1].priority_score = 8
    /\ solutions[1].impact = "Alta"

\* C4 as stated: the scenario yields one group with count 15 and total 3000,
\* USERS in T1, and one suggestion: create index, score 8, high impact.
C4_ScenarioOneGroup ==
    ScenarioEvaluated =>
        /\ Len(grouped_queries) = 1
        /\ grouped_queries[1].count = 15
        /\ grouped_queries[1].total_exec_time = 3000
        /\ ScenarioSuggestion

\* C4 as amended: the scenario yields two groups, one per condition, each
\* with count 1, q2's (total 2000) before q1's (total 1000); USERS is in T1,
\* and there is one suggestion: create index, score 8, high impact.
C4_ScenarioTwoGroups ==
    ScenarioEvaluated =>
        /\ Len(grouped_queries) = 2
        /\ grouped_queries[1].sql_ids = <<2>>
        /\ grouped_queries[1].count = 1
        /\ grouped_queries[1].total_exec_time = 2000
        /\ grouped_queries[2].sql_ids = <<1>>
        /\ grouped_queries[2].count = 1
        /\ grouped_queries[2].total_exec_time = 1000
        /\ ScenarioSuggestion

\* The scenario has run to the end and USERS has its suggestion.
C4_Witness == ScenarioEvaluated /\ ScenarioSuggestion

----------------------------------------------------------------------------
(* Specification of the gain estimator alone: _estimate_gain is called     *)
(* with any query and any table size.                                      *)

\* Elapsed times of the queries, microseconds; 0 is raised to 1 by line 121.
EstimateElapsed == {0, 1, 40, 100, 1000, 2000}

\* Queries with an elapsed time, a query group (which has none: line 121
\* falls back to 100), and a value that is no dict.
EstimateQueries ==
    {DictQuery(Query(1, <<"USERS">>, <<"ID=1">>, Stat(1, e))) : e \in EstimateElapsed}
    \cup {DictQuery([group_key |-> 1, tables |-> {"USERS"}, sql_ids |-> <<1>>]),
          NoQuery}

\* Table sizes in MB: both sides of the bounds 10 and 50 of line 122, the
\* sizes of test_estimate_gain_various_sizes (5, 30, 100) and a negative one.
EstimateSizes == {-1, 0, 5, 9, 10, 11, 30, 49, 50, 51, 100}

InitEstimate ==
    /\ pc = "start"
    /\ queries = <<>>
    /\ grouped_queries = <<>>
    /\ db_reader = NoReader
    /\ cl_queries = EmptyQueriesArg
    /\ size_threshold = DefaultSizeThreshold
    /\ classified_tables = EmptyClassification
    /\ lookups = <<>>
    /\ raised = "none"
    /\ solutions = <<>>
    /\ returned = "pending"
    /\ results = NoRows
    /\ ev_queries = Nothing(<<>>)
    /\ eg_query \in EstimateQueries
    /\ eg_table_size_mb \in EstimateSizes
    /\ estimate = NotEstimated
    /\ run = 1
    /\ prev_solutions = <<>>
    /\ MonitorIdle

EstimateCall ==
    /\ pc = "start"
    /\ estimate' = estimate_gain_call(eg_query, eg_table_size_mb)
    /\ pc' = "estimated"
    /\ UNCHANGED <<queries, grouped_queries, db_reader, cl_queries, size_threshold,
                   classified_tables, lookups, raised, solutions, returned,
                   results, ev_queries, eg_query, eg_table_size_mb, run, prev_solutions,
                   monitorVars>>

NextEstimate == EstimateCall

SpecEstimate == InitEstimate /\ [][NextEstimate]_vars

----------------------------------------------------------------------------
(* Claims about the gain estimator (checked under SpecEstimate).           *)

\* The call returned: the query is a dict and the size is not negative.
Estimated == pc = "estimated" /\ estimate.raised = "none"

\* C12: for a table size that is not negative, the estimated gain percent is
\* 60 below 10 MB, 40 from 10 MB to below 50 MB and 20 from 50 MB on,
\* whatever the query's elapsed time; so it never grows with the size, it
\* falls strictly from 5 MB to 30 MB to 100 MB, and it is within 0..100.
C12_GainPercentBySizeBand ==
    Estimated =>
        LET percent == estimate.value.estimated_gain_percent
        IN  /\ eg_table_size_mb < 10 => percent = 60
            /\ (eg_table_size_mb >= 10 /\ eg_table_size_mb < 50) => percent = 40
            /\ eg_table_size_mb >= 50 => percent = 20
            /\ \A q \in EstimateQueries \ {NoQuery} :
                   estimate_gain_call(q, eg_table_size_mb).value.estimated_gain_percent
                       = percent
            /\ \A bigger \in {b \in EstimateSizes : b >= eg_table_size_mb} :
                   estimate_gain_call(eg_query, bigger).value.estimated_gain_percent
                       <= percent
            /\ estimate_gain_call(eg_query, 5).value.estimated_gain_percent
                   > estimate_gain_call(eg_query, 30).value.estimated_gain_percent
            /\ estimate_gain_call(eg_query, 30).value.estimated_gain_percent
                   > estimate_gain_call(eg_query, 100).value.estimated_gain_percent
            /\ percent >= 0 /\ percent <= 100

\* A table of exactly 10 MB and a query of 2000 microseconds: 40 percent.
C12_Witness ==
    /\ Estimated
    /\ eg_table_size_mb = 10
    /\ eg_query = DictQuery(Query(1, <<"USERS">>, <<"ID=1">>, Stat(1, 2000)))
    /\ estimate.value.estimated_gain_percent = 40
    /\ estimate.value.old_time = 2000

----------------------------------------------------------------------------
(* functions/utils.py (SQLParser) and identify_fts_queries                 *)
(* (functions/query_monitor.py lines 12-64).                               *)
(* A SQL text is [parser, tokens]: `parser` is what sql_metadata's         *)
(* Parser(sql_text).tables does with it (it raises, or returns a list of   *)
(* names), `tokens` are the words of the text that follow its first        *)
(* clauses, separated by single blanks and free of semicolons and          *)
(* parentheses; the clauses before them hold no WHERE.                     *)

\* SQLParser.extract_tables: the parser's tables, [] when it raises.
extract_tables(sql_text) ==
    IF sql_text.parser.raises THEN <<>> ELSE sql_text.parser.tables

\* Positions of `word` in the words of a text where it stands between two
\* blanks: it is neither the first nor the last word.
Separators(words, word) == {i \in 2..(Len(words) - 1) : words[i] = word}

\* text.split(" " + word + " ") for the words of a text.  The word after a
\* separator is the first of the rest: the blank before it is consumed.
RECURSIVE SplitWords(_, _)
SplitWords(words, word) ==
    IF Separators(words, word) = {} THEN <<words>>
    ELSE LET k == CHOOSE i \in Separators(words, word) :
                      \A j \in Separators(words, word) : i <= j
         IN  <<SubSeq(words, 1, k - 1)>>
             \o SplitWords(SubSeq(words, k + 1, Len(words)), word)

\* " ".join(words)
RECURSIVE JoinWords(_)
JoinWords(words) ==
    IF Len(words) = 1 THEN words[1]
    ELSE words[1] \o " " \o JoinWords(Tail(words))

\* SQLParser.extract_where_conditions (lines 50-74).  `head` stands for the
\* text before toks, so parts[1] is the text before the first " WHERE ".
extract_where_conditions(sql_text) ==
    LET toks  == sql_text.tokens
        parts == SplitWords(<<"head">> \o toks, "WHERE")
    IN  IF ~\E i \in 1..(Len(toks) - 1) : Upper(toks[i]) = "WHERE"
        THEN <<>>                           \* line 51
        ELSE IF Len(parts) < 2
        THEN <<>>                           \* IndexError at line 55, caught at 72
        ELSE LET segments == SplitWords(parts[2], "AND")
                 mains    == [i \in 1..Len(segments) |->
                                 SplitWords(segments[i], "OR")[1]]
                 kept     == SelectSeq(mains, LAMBDA m : m # <<>>)
             IN  [i \in 1..Len(kept) |-> JoinWords(kept[i])]

execute_query_always_answers(reader, answer) == answer

\* OracleTableReader.execute_query for the FTS query: the rows, or None when
\* there is no connection and none can be made, or the query fails
\* (handle_db_errors).  A reader with connected = FALSE is one whose database
\* stays unreachable.
execute_query(reader, answer) ==
    IF reader.connected THEN answer ELSE [kind |-> "none", rows |-> <<>>]

\* Lines 38-53: the record of one row.
IdentifyRow(reader, row) ==
    LET tables == extract_tables(row.sql_text)
    IN  [sql_id           |-> row.sql_id,
         sql_text         |-> row.sql_text,
         executions       |-> row.executions,
         elapsed_time     |-> row.elapsed_time,
         tables           |-> tables,
         where_conditions |-> extract_where_conditions(row.sql_text),
         schema           |-> IF tables # <<>>
                              THEN get_table_schema(reader, tables[1])
                              ELSE NoneVal]

\* identify_fts_queries.  A reader that is no OracleTableReader has no
\* execute_query: the AttributeError is caught at line 62.
identify_fts_queries_skip_failed(reader, answer) ==
    IF reader.type # "OracleTableReader" THEN <<>>
    ELSE LET res  == execute_query(reader, answer)
             good == SelectSeq(res.rows, LAMBDA row : ~row.sql_text.parser.raises)
         IN  IF res.kind = "none" \/ res.rows = <<>> THEN <<>>
             ELSE [i \in 1..Len(good) |-> IdentifyRow(reader, good[i])]

identify_fts_queries(reader, answer) ==
    IF reader.type # "OracleTableReader" THEN <<>>
    ELSE LET res == execute_query(reader, answer)
         IN  IF res.kind = "none" \/ res.rows = <<>> THEN <<>>
             ELSE [i \in 1..Len(res.rows) |-> IdentifyRow(reader, res.rows[i])]

\* The schema lookups identify_fts_queries issues, in call order.
IdentifyLookups(qs) ==
    LET with == SelectSeq(qs, LAMBDA q : q.tables # <<>>)
    IN  [i \in 1..Len(with) |-> <<"get_table_schema", with[i].tables[1]>>]

----------------------------------------------------------------------------
(* Specification of the identifier alone: identify_fts_queries is called   *)
(* with a reader whose FTS query fails or answers any list of rows.        *)

ParserOutcomes ==
    {[raises |-> TRUE, tables |-> <<>>],
     [raises |-> FALSE, tables |-> <<>>],
     [raises |-> FALSE, tables |-> <<"USERS">>],
     [raises |-> FALSE, tables |-> <<"ORDERS", "USERS">>]}

\* No WHERE, a WHERE with one condition, with two, with an OR, a lower-case
\* where, and a WHERE that ends the text.
TokenLists ==
    {<<>>,
     <<"WHERE", "ID=1">>,
     <<"WHERE", "ID=1", "AND", "ID=2">>,
     <<"WHERE", "ID=2", "OR", "ID=1">>,
     <<"where", "ID=1">>,
     <<"WHERE">>}

SqlTexts == [parser : ParserOutcomes, tokens : TokenLists]

\* The rows of v$sql with the texts f[1], f[2], ...
RowsOf(f) ==
    [i \in DOMAIN f |->
        [sql_id |-> i, sql_text |-> f[i], executions |-> 10, elapsed_time |-> 1000]]

QueryFailed == [kind |-> "none", rows |-> <<>>]

\* A reader whose database is unreachable for the whole run: no connection,
\* every query answers None.
UnavailableReader ==
    [type |-> "OracleTableReader", connected |-> FALSE,
     size |-> [t \in Tables |-> SizeNone],
     schema |-> [t \in Tables |-> NoneVal],
     indexes |-> NoIndexes]

NoSchemas == [t \in Tables |-> NoneVal]

InitIdentify ==
    /\ pc = "start"
    /\ queries = <<>>
    /\ grouped_queries = <<>>
    /\ db_reader \in {NoReader, UnavailableReader}
           \cup Readers({[t \in Tables |-> SizeValue(5)]}, {OwnedByApp, NoSchemas},
                        {NoIndexes})
    /\ cl_queries = EmptyQueriesArg
    /\ size_threshold = DefaultSizeThreshold
    /\ classified_tables = EmptyClassification
    /\ lookups = <<>>
    /\ raised = "none"
    /\ solutions = <<>>
    /\ returned = "pending"
    /\ \/ results = QueryFailed
       \/ \E n \in 0..MaxQueries : \E f \in [1..n -> SqlTexts] :
              results = [kind |-> "rows", rows |-> RowsOf(f)]
    /\ ev_queries = Nothing(<<>>)
    /\ eg_query = NoQuery
    /\ eg_table_size_mb = 0
    /\ estimate = NotEstimated
    /\ run = 1
    /\ prev_solutions = <<>>
    /\ MonitorIdle

IdentifyCall ==
    /\ pc = "start"
    /\ queries' = identify_fts_queries(db_reader, results)
    /\ lookups' = IdentifyLookups(queries')
    /\ pc' = "identified"
    /\ UNCHANGED <<grouped_queries, db_reader, cl_queries, size_threshold,
                   classified_tables, raised, solutions, returned, results,
                   ev_queries, eg_query, eg_table_size_mb, estimate, run,
                   prev_solutions,
                   monitorVars>>

NextIdentify == IdentifyCall

SpecIdentify == InitIdentify /\ [][NextIdentify]_vars

----------------------------------------------------------------------------
(* Claims about the identifier (checked under SpecIdentify).               *)

\* The FTS query answered rows to a reader that can run it.
RowsAnswered ==
    /\ pc = "identified"
    /\ db_reader.type = "OracleTableReader"
    /\ db_reader.connected
    /\ results.kind = "rows"

\* One record per row, in source order, and no error.
OneRecordPerRow ==
    /\ raised = "none"
    /\ Len(queries) = Len(results.rows)
    /\ \A i \in 1..Len(queries) :
           /\ queries[i].sql_id = results.rows[i].sql_id
           /\ queries[i].sql_text = results.rows[i].sql_text
           /\ queries[i].executions = results.rows[i].executions
           /\ queries[i].elapsed_time = results.rows[i].elapsed_time

----------------------------------------------------------------------------
(* Specification of the planner alone: evaluate_performance is called with *)
(* any reader, any classification and no queries or any list of queries.   *)

\* Where a caller may have put a table: nowhere, in T1 with 5 MB, or in T2
\* with 5 MB (under a custom threshold), 15 MB, 50 MB or 60 MB.
Placements ==
    {[tier |-> "none", size_mb |-> 0], [tier |-> "T1", size_mb |-> 5],
     [tier |-> "T2", size_mb |-> 5], [tier |-> "T2", size_mb |-> 15],
     [tier |-> "T2", size_mb |-> 50], [tier |-> "T2", size_mb |-> 60]}

\* The entry of a classified table, as classify_tables builds it.
TableInfo(reader, table, size_mb) ==
    [table   |-> table,
     size_mb |-> size_mb,
     schema  |-> get_table_schema(reader, table),
     indexes |-> IF Truthy(get_existing_indexes(reader, table))
                 THEN get_existing_indexes(reader, table) ELSE Nothing(<<>>)]

\* The classification that places every table as `place` says, each tier in
\* ascending order of the names.
ClassificationOf(reader, place) ==
    LET names(tier) == SortedSet({t \in Tables : place[t].tier = tier})
        infos(tier) == [i \in 1..Len(names(tier)) |->
                           TableInfo(reader, names(tier)[i],
                                     place[names(tier)[i]].size_mb)]
    IN  [T1 |-> infos("T1"), T2 |-> infos("T2")]

\* The queries a caller may pass: dicts with a sql_id and the tables they
\* read; "users" is no match for the table USERS (line 86 compares as is).
PlannerQueryTables == {{"USERS"}, {"ORDERS"}, {"ORDERS", "USERS"}, {"users"}}

PlannerQueriesOf(f) ==
    [i \in DOMAIN f |-> [sql_id |-> i, tables |-> f[i], elapsed_time |-> 100 * i]]

\* The index query of ORDERS fails; get_existing_indexes answers None for
\* ORDERS.  USERS has an index in both.
OrdersQueryFails ==
    [t \in Tables |-> IF t = "ORDERS" THEN IndexQueryFailed ELSE Some(<<"PK">>)]
OrdersAnswerNone ==
    [t \in Tables |-> IF t = "ORDERS" THEN Nothing(<<>>) ELSE Some(<<"PK">>)]

PlannerReaders ==
    {NoReader, UnavailableReader}
    \cup Readers({[t \in Tables |-> SizeValue(5)]}, {OwnedByApp},
                 {NoIndexes, IndexOnUsers, IndexOnOrders,
                  OrdersQueryFails, OrdersAnswerNone})

\* `queries or []` (line 85)
QueriesOrEmpty(arg) == IF arg.some THEN arg.val ELSE <<>>

InitEvaluate ==
    /\ pc = "start"
    /\ queries = <<>>
    /\ grouped_queries = <<>>
    /\ db_reader \in PlannerReaders
    /\ cl_queries = EmptyQueriesArg
    /\ size_threshold = DefaultSizeThreshold
    /\ \E place \in [Tables -> Placements] :
           classified_tables = ClassificationOf(db_reader, place)
    /\ lookups = <<>>
    /\ raised = "none"
    /\ solutions = <<>>
    /\ returned = "pending"
    /\ results = NoRows
    /\ \/ ev_queries = Nothing(<<>>)
       \/ \E n \in 0..MaxQueries : \E f \in [1..n -> PlannerQueryTables] :
              ev_queries = Some(PlannerQueriesOf(f))
    /\ eg_query = NoQuery
    /\ eg_table_size_mb = 0
    /\ estimate = NotEstimated
    /\ run = 1
    /\ prev_solutions = <<>>
    /\ MonitorIdle

EvaluateCall ==
    /\ pc = "start"
    /\ LET out == evaluate_performance(db_reader, classified_tables,
                                       QueriesOrEmpty(ev_queries))
       IN  /\ solutions' = out.solutions
           /\ lookups' = out.lookups
           /\ raised' = out.raised
    /\ pc' = "evaluated"
    /\ UNCHANGED <<queries, grouped_queries, db_reader, cl_queries, size_threshold,
                   classified_tables, returned, results, ev_queries, eg_query,
                   eg_table_size_mb, estimate, run, prev_solutions,
                   monitorVars>>

NextEvaluate == EvaluateCall

SpecEvaluate == InitEvaluate /\ [][NextEvaluate]_vars

----------------------------------------------------------------------------
(* Claims about the planner (checked under SpecEvaluate).                  *)

\* The call ran its loops: the reader is a connected OracleTableReader.
Planned ==
    /\ pc = "evaluated"
    /\ db_reader.type = "OracleTableReader"
    /\ is_connected(db_reader)

\* The suggestions of one tier for one table.
SuggestionsFor(category, table) ==
    SelectSeq(solutions, LAMBDA sol : sol.category = category /\ sol.table = table)

\* The queries passed that read the table.
Matching(table) ==
    {i \in 1..Len(QueriesOrEmpty(ev_queries)) :
        table \in QueriesOrEmpty(ev_queries)[i].tables}

\* C14: every T1 table has exactly one suggestion: create index, score 8,
\* high impact when it has no index; index exists, score 2, low impact when
\* it has at least one.
C14_T1SuggestionByIndexes ==
    Planned =>
        /\ raised = "none"
        /\ \A i \in 1..Len(classified_tables.T1) :
               LET table == classified_tables.T1[i].table
                   sols  == SuggestionsFor("T1", table)
                   has   == get_existing_indexes(db_reader, table).val # <<>>
               IN  /\ Len(sols) = 1
                   /\ sols[1].suggestion =
                          (IF has THEN "indice ja existe" ELSE "criar indice")
                   /\ sols[1].priority_score = (IF has THEN 2 ELSE 8)
                   /\ sols[1].impact = (IF has THEN "Baixa" ELSE "Alta")
        /\ Len(SelectSeq(solutions, LAMBDA sol : sol.category = "T1"))
               = Len(classified_tables.T1)

\* Both kinds at once: USERS has an index, ORDERS has none, both are in T1.
C14_Witness ==
    /\ Planned
    /\ Len(classified_tables.T1) = 2
    /\ get_existing_indexes(db_reader, "USERS") = Some(<<"PK">>)
    /\ solutions[1].table = "ORDERS" /\ solutions[1].priority_score = 8
    /\ solutions[2].table = "USERS" /\ solutions[2].priority_score = 2

\* C15 as stated: for a T2 table that no query reads, the average gain is 0
\* and the action is consider index, with or without indexes; for one that
\* some query reads, the average gain is the mean of the estimated gains
\* and the action is refactor or partition if indexes exist, else consider
\* index.
C15_T2ActionByQueriesAndIndexes ==
    (Planned /\ raised = "none") =>
        \A i \in 1..Len(classified_tables.T2) :
            LET info  == classified_tables.T2[i]
                sols  == SuggestionsFor("T2", info.table)
                has   == get_existing_indexes(db_reader, info.table).val # <<>>
            IN  /\ Len(sols) = 1
                /\ Matching(info.table) = {} =>
                       /\ sols[1].avg_gain_percent = 0
                       /\ sols[1].suggestion = "considerar indice"
                /\ Matching(info.table) # {} =>
                       /\ sols[1].avg_gain_percent = GainPercent(info.size_mb)
                       /\ sols[1].suggestion =
                              (IF has THEN "refatorar query ou particionar"
                               ELSE "considerar indice")

\* C16: a T2 suggestion has score 9 and critical impact exactly when its
\* average gain is above 20, score 7 and medium impact exactly when the
\* gain is above 0 and at most 20, score 5 and low impact exactly when the
\* gain is 0 or less.
C16_T2ScoreAndImpactByGain ==
    Planned =>
        \A i \in 1..Len(solutions) :
            solutions[i].category = "T2" =>
                LET g      == solutions[i].avg_gain_percent
                    score  == solutions[i].priority_score
                    impact == solutions[i].impact
                IN  /\ (score = 9 /\ impact = "Critico") <=> g > 20
                    /\ (score = 7 /\ impact = "Medio") <=> (g > 0 /\ g <= 20)
                    /\ (score = 5 /\ impact = "Baixo") <=> g <= 0
                    /\ score \in {5, 7, 9}
                    /\ score = 9 <=> impact = "Critico"
                    /\ score = 7 <=> impact = "Medio"
                    /\ score = 5 <=> impact = "Baixo"

\* A table of 60 MB that a query reads has the gain 20, the bound: score 7;
\* next to it a table of 15 MB with the gain 40: score 9.
C16_Witness ==
    /\ Planned
    /\ Len(solutions) = 2
    /\ solutions[1].category = "T2" /\ solutions[2].category = "T2"
    /\ solutions[1].avg_gain_percent = 40 /\ solutions[1].priority_score = 9
    /\ solutions[2].avg_gain_percent = 20 /\ solutions[2].priority_score = 7

\* C17 as stated: the list is sorted by priority_score descending, so a T2
\* suggestion of score 9 precedes every T1 suggestion.
C17_SortedByScoreDescending ==
    Planned =>
        \A i, j \in 1..Len(solutions) :
            i < j => solutions[i].priority_score >= solutions[j].priority_score

\* C17 as amended: the list holds the T1 suggestions in the order of the
\* classification's T1 list, then the T2 suggestions in the order of its T2
\* list, whatever their scores.
C17_T1ThenT2InClassificationOrder ==
    (Planned /\ raised = "none") =>
        /\ Len(solutions) = Len(classified_tables.T1) + Len(classified_tables.T2)
        /\ \A i \in 1..Len(classified_tables.T1) :
               /\ solutions[i].category = "T1"
               /\ solutions[i].table = classified_tables.T1[i].table
        /\ \A i \in 1..Len(classified_tables.T2) :
               LET sol == solutions[Len(classified_tables.T1) + i]
               IN  sol.category = "T2" /\ sol.table = classified_tables.T2[i].table

\* A T1 suggestion of score 2 stands before a T2 suggestion of score 9.
C17_Witness ==
    /\ Planned
    /\ Len(solutions) = 2
    /\ solutions[1].category = "T1" /\ solutions[1].priority_score = 2
    /\ solutions[2].category = "T2" /\ solutions[2].priority_score = 9

----------------------------------------------------------------------------
(* Specification of the stages run one after the other by a caller:        *)
(* identify_fts_queries, group_similar_queries, classify_tables on the     *)
(* groups, evaluate_performance on the classification, with the groups as  *)
(* its queries or with none (as main.py line 142 calls it); then the same  *)
(* once more, on the same rows and the same reader.                        *)

\* A text the parser rejects, two texts on USERS that differ in their
\* condition, and a text on two tables.
StageTexts ==
    {[parser |-> [raises |-> TRUE, tables |-> <<>>], tokens |-> <<"WHERE", "ID=1">>],
     [parser |-> [raises |-> FALSE, tables |-> <<"USERS">>],
      tokens |-> <<"WHERE", "ID=1">>],
     [parser |-> [raises |-> FALSE, tables |-> <<"USERS">>],
      tokens |-> <<"WHERE", "ID=2">>],
     [parser |-> [raises |-> FALSE, tables |-> <<"ORDERS", "users">>],
      tokens |-> <<"WHERE", "ID=1">>]}

StageReaders ==
    {UnavailableReader}
    \cup Readers([Tables -> {SizeNone, SizeValue(5), SizeValue(50)}], {OwnedByApp},
                 {NoIndexes, IndexOnOrders})

InitStages ==
    /\ pc = "start"
    /\ queries = <<>>
    /\ grouped_queries = <<>>
    /\ db_reader \in StageReaders
    /\ cl_queries = EmptyQueriesArg
    /\ size_threshold = DefaultSizeThreshold
    /\ classified_tables = EmptyClassification
    /\ lookups = <<>>
    /\ raised = "none"
    /\ solutions = <<>>
    /\ returned = "pending"
    /\ \/ results = QueryFailed
       \/ \E n \in 0..MaxQueries : \E f \in [1..n -> StageTexts] :
              results = [kind |-> "rows", rows |-> RowsOf(f)]
    /\ ev_queries \in {Nothing(<<>>), Some(<<>>)}   \* whether the caller passes queries
    /\ eg_query = NoQuery
    /\ eg_table_size_mb = 0
    /\ estimate = NotEstimated
    /\ run = 1
    /\ prev_solutions = <<>>
    /\ MonitorIdle

StageIdentify ==
    /\ pc = "start"
    /\ queries' = identify_fts_queries(db_reader, results)
    /\ lookups' = lookups \o IdentifyLookups(queries')
    /\ pc' = "identified"
    /\ UNCHANGED <<grouped_queries, db_reader, cl_queries, size_threshold,
                   classified_tables, raised, solutions, returned, results,
                   ev_queries, eg_query, eg_table_size_mb, estimate, run,
                   prev_solutions,
                   monitorVars>>

StageGroup ==
    /\ pc = "identified"
    /\ grouped_queries' = group_similar_queries(queries)
    /\ pc' = "grouped"
    /\ UNCHANGED <<queries, db_reader, cl_queries, size_threshold,
                   classified_tables, lookups, raised, solutions, returned,
                   results, ev_queries, eg_query, eg_table_size_mb, estimate, run,
                   prev_solutions,
                   monitorVars>>

\* A group's "tables" is list(set(...)): its order is any.
StageClassify ==
    /\ pc = "grouped"
    /\ \E orders \in Product([i \in 1..Len(grouped_queries) |->
                                 Rearrangements(SortedSet(grouped_queries[i].tables))]) :
           cl_queries' = PyList([i \in 1..Len(grouped_queries) |->
                                    PyDict(PyList([k \in 1..Len(orders[i]) |->
                                                      PyStr(orders[i][k])]))])
    /\ LET out == classify_tables(db_reader, cl_queries', size_threshold)
       IN  /\ classified_tables' = out.result
           /\ lookups' = lookups \o out.lookups
           /\ raised' = out.raised
           /\ pc' = IF out.raised = "none" THEN "classified" ELSE "done"
    /\ UNCHANGED <<queries, grouped_queries, db_reader, size_threshold, solutions,
                   returned, results, ev_queries, eg_query, eg_table_size_mb,
                   estimate, run, prev_solutions,
                   monitorVars>>

StageEvaluate ==
    /\ pc = "classified"
    /\ ev_queries' = IF ev_queries.some THEN Some(grouped_queries) ELSE ev_queries
    /\ LET out == evaluate_performance(db_reader, classified_tables,
                                       QueriesOrEmpty(ev_queries'))
       IN  /\ solutions' = out.solutions
           /\ lookups' = lookups \o out.lookups
           /\ raised' = out.raised
           /\ pc' = IF out.raised = "none" THEN "evaluated" ELSE "done"
    /\ UNCHANGED <<queries, grouped_queries, db_reader, cl_queries, size_threshold,
                   classified_tables, returned, results, eg_query, eg_table_size_mb,
                   estimate, run, prev_solutions,
                   monitorVars>>

\* The caller starts over: nothing is reset but its position.
StageAgain ==
    /\ pc = "evaluated"
    /\ run = 1
    /\ run' = 2
    /\ prev_solutions' = solutions
    /\ pc' = "start"
    /\ UNCHANGED <<queries, grouped_queries, db_reader, cl_queries, size_threshold,
                   classified_tables, lookups, raised, solutions, returned, results,
                   ev_queries, eg_query, eg_table_size_mb, estimate,
                   monitorVars>>

NextStages == StageIdentify \/ StageGroup \/ StageClassify \/ StageEvaluate \/ StageAgain

SpecStages == InitStages /\ [][NextStages]_vars

----------------------------------------------------------------------------
(* Claims about the stages run in sequence (checked under SpecStages).     *)

ZeroRawQueries ==
    /\ results = NoRows
    /\ db_reader.connected

DatabaseUnavailable == ~db_reader.connected \/ results = QueryFailed

\* What the stages return when the database is available and the FTS query
\* finds nothing.
FoundNothing ==
    /\ queries = <<>>
    /\ solutions = <<>>
    /\ raised = "none"

\* C20 as stated: when the database is unavailable for the whole run, what
\* identify_fts_queries and evaluate_performance return differs from what
\* they return in a successful run that found nothing.
C20_UnavailableIsDistinguishable ==
    (pc = "evaluated" /\ DatabaseUnavailable) => ~FoundNothing

\* C20 as amended: when the database is unavailable for the whole run,
\* identify_fts_queries returns the empty list and evaluate_performance
\* returns the empty list without raising, as in a successful run that
\* found nothing; and evaluate_performance returns the empty list for a
\* reader without connection whatever the classification holds.
C20_UnavailableReturnsEmptyLists ==
    DatabaseUnavailable =>
        /\ pc # "start" => queries = <<>>
        /\ pc # "done"
        /\ FoundNothing
        /\ ~db_reader.connected =>
               \A place \in [Tables -> Placements] :
                   LET out == evaluate_performance(
                                  db_reader, ClassificationOf(db_reader, place),
                                  QueriesOrEmpty(ev_queries))
                   IN  out.raised = "none" /\ out.solutions = <<>>

\* The stages have run with a reader that has no connection while the
\* query source held a row.
C20_Witness ==
    /\ pc = "evaluated"
    /\ ~db_reader.connected
    /\ results.kind = "rows"
    /\ Len(results.rows) > 0
    /\ FoundNothing

----------------------------------------------------------------------------
(* ExecutionController (main.py lines 23-78; functions/utils.py lines      *)
(* 77-163 hold the same class).  An instance keeps its own ConfigParser in *)
(* self.config; the file is read on construction and by                    *)
(* schedule_next_run, and written by _save_config.                         *)

MaxCalls == 3

\* ConfigParser.read(path): a missing file is skipped; the options of the
\* file replace those of the same name, the others stay.
ConfigRead(config, file) ==
    IF ~file.exists \/ ~file.content.has_section THEN config
    ELSE [has_section |-> TRUE,
          FIRST_RUN |-> IF file.content.FIRST_RUN # MissingOption
                        THEN file.content.FIRST_RUN ELSE config.FIRST_RUN,
          NEXT_RUN_TIMESTAMP |-> IF file.content.NEXT_RUN_TIMESTAMP # MissingOption
                                 THEN file.content.NEXT_RUN_TIMESTAMP
                                 ELSE config.NEXT_RUN_TIMESTAMP]

\* __init__: a new ConfigParser, read from the file only if the file exists.
ExecutionController(file) ==
    [constructed |-> TRUE,
     config |-> IF file.exists THEN ConfigRead(EmptyConfig, file) ELSE EmptyConfig]

\* _save_config: the file now holds self.config.
save_config(config) == ConfigFile(config)

\* _init_config_file: self.config["Execution"] is replaced, then saved.
init_config_file(config) == ExecutionSection("0", "")

\* _update_config_first_run: FIRST_RUN is set to "0", then saved.
update_config_first_run(config) == [config EXCEPT !.FIRST_RUN = "0"]

\* self.config.get("Execution", "FIRST_RUN", fallback="1")
ConfigGetFirstRun(config) ==
    IF config.FIRST_RUN = MissingOption THEN "1" ELSE config.FIRST_RUN

\* check_first_run on an instance whose self.config is `config`:
\* [returned, config, file].
check_first_run(config, file) ==
    IF ~file.exists
    THEN [returned |-> TRUE, config |-> init_config_file(config),
          file |-> save_config(init_config_file(config))]
    ELSE IF ~config.has_section
    THEN [returned |-> TRUE, config |-> init_config_file(config),
          file |-> save_config(init_config_file(config))]
    ELSE IF ConfigGetFirstRun(config) = "1"
    THEN [returned |-> TRUE, config |-> update_config_first_run(config),
          file |-> save_config(update_config_first_run(config))]
    ELSE [returned |-> FALSE, config |-> config, file |-> file]

\* The timestamp schedule_next_run(hours) writes.
NextRunIn(hours) == IF hours = 6 THEN "now+6h" ELSE "now+nh"

\* schedule_next_run(hours): [raised, config, file].  config.set raises
\* NoSectionError when neither self.config nor the file has the section.
schedule_next_run(config, file, hours) ==
    LET fresh == ConfigRead(config, file)
    IN  IF ~fresh.has_section
        THEN [raised |-> "NoSectionError", config |-> fresh, file |-> file]
        ELSE [raised |-> "none",
              config |-> [fresh EXCEPT !.NEXT_RUN_TIMESTAMP = NextRunIn(hours)],
              file |-> save_config([fresh EXCEPT !.NEXT_RUN_TIMESTAMP = NextRunIn(hours)])]

----------------------------------------------------------------------------
(* Two ExecutionController instances on one config path, constructed and   *)
(* called in any interleaving (two monitor processes, or two objects of    *)
(* one process).                                                           *)

\* The config files an installation can start with: none, one left by an
\* earlier execution, one written by hand (the tests write FIRST_RUN = 0) or
\* one without the section or the option.
StartingConfigFiles ==
    {NoConfigFile,
     ConfigFile(EmptyConfig),
     ConfigFile(ExecutionSection("0", "")),
     ConfigFile(ExecutionSection("1", "")),
     ConfigFile(ExecutionSection(MissingOption, ""))}

pipelineVars == <<pc, queries, grouped_queries, db_reader, cl_queries, size_threshold,
                  classified_tables, lookups, raised, solutions, returned,
                  results, ev_queries, eg_query, eg_table_size_mb, estimate, run,
                  prev_solutions>>

\* No pipeline function called.
PipelineIdle ==
    /\ pc = "start"
    /\ queries = <<>>
    /\ grouped_queries = <<>>
    /\ db_reader = NoReader
    /\ cl_queries = EmptyQueriesArg
    /\ size_threshold = DefaultSizeThreshold
    /\ classified_tables = EmptyClassification
    /\ lookups = <<>>
    /\ raised = "none"
    /\ solutions = <<>>
    /\ returned = "pending"
    /\ results = NoRows
    /\ ev_queries = Nothing(<<>>)
    /\ eg_query = NoQuery
    /\ eg_table_size_mb = 0
    /\ estimate = NotEstimated
    /\ run = 1
    /\ prev_solutions = <<>>

InitController ==
    /\ PipelineIdle
    /\ config_file \in StartingConfigFiles
    /\ controllers = [c \in ControllerIds |-> NotConstructed]
    /\ first_run_returns = <<>>
    /\ run_calls = <<>>
    /\ run_returned = "pending"
    /\ sg_solutions = PyList(<<>>)
    /\ saves = <<>>
    /\ generated_files = <<>>
    /\ output_dir = {}

Construct(c) ==
    /\ ~controllers[c].constructed
    /\ controllers' = [controllers EXCEPT ![c] = ExecutionController(config_file)]
    /\ UNCHANGED <<pipelineVars, config_file, first_run_returns, run_calls,
                   run_returned, sg_solutions, saves, generated_files, output_dir>>

CheckFirstRun(c) ==
    /\ controllers[c].constructed
    /\ Len(first_run_returns) < MaxCalls
    /\ LET out == check_first_run(controllers[c].config, config_file)
       IN  /\ controllers' = [controllers EXCEPT ![c].config = out.config]
           /\ config_file' = out.file
           /\ first_run_returns' =
                  Append(first_run_returns, [controller |-> c, returned |-> out.returned])
    /\ UNCHANGED <<pipelineVars, run_calls, run_returned, sg_solutions, saves,
                   generated_files, output_dir>>

ScheduleNextRun(c) ==
    /\ controllers[c].constructed
    /\ LET out == schedule_next_run(controllers[c].config, config_file, 6)
       IN  /\ controllers' = [controllers EXCEPT ![c].config = out.config]
           /\ config_file' = out.file
           /\ raised' = out.raised
    /\ UNCHANGED <<pc, queries, grouped_queries, db_reader, cl_queries, size_threshold,
                   classified_tables, lookups, solutions, returned,
                   results, ev_queries, eg_query, eg_table_size_mb, estimate, run,
                   prev_solutions, first_run_returns, run_calls, run_returned,
                   sg_solutions, saves, generated_files, output_dir>>

NextController ==
    \E c \in ControllerIds : Construct(c) \/ CheckFirstRun(c) \/ ScheduleNextRun(c)

SpecController == InitController /\ [][NextController]_vars

\* The positions of the check_first_run calls that returned True.
ReturnedTrue == {i \in 1..Len(first_run_returns) : first_run_returns[i].returned}

\* C21: for one config file, once any check_first_run call has returned,
\* every later call returns False, whichever instance makes it and whenever
\* that instance was constructed: at most one call ever returns True, and
\* only the first call can.
C21_OnlyFirstCallReturnsTrue ==
    /\ Cardinality(ReturnedTrue) <= 1
    /\ ReturnedTrue \subseteq {1}

\* The two instances were constructed before the file existed, and each of
\* them answered True.
C21_TwoFirstRuns ==
    /\ Len(first_run_returns) = 2
    /\ first_run_returns[1] = [controller |-> "A", returned |-> TRUE]
    /\ first_run_returns[2] = [controller |-> "B", returned |-> TRUE]

----------------------------------------------------------------------------
(* functions/script_generator.py                                           *)

\* solution.get(key, default)
Get(d, key, default) == IF key \in DOMAIN d THEN d[key] ELSE default

\* str.lower() on ASCII: A..Z (65..90) move up by 32.
LowerCodes(c) == [i \in 1..Len(c) |-> IF c[i] >= 65 /\ c[i] <= 90 THEN c[i] + 32 ELSE c[i]]
LowerOf ==
    [s \in {t \in Strings : \E l \in Strings : Ord(l) = LowerCodes(Ord(t))} |->
        CHOOSE l \in Strings : Ord(l) = LowerCodes(Ord(s))]

Lower(s) == LowerOf[s]

\* A solution of the list: a dict, or a value that is none.
DictSolution(d) == [type |-> "dict", val |-> d]
NotADictSolution == [type |-> "str", val |-> [table |-> ""]]

NoScript == [statement |-> "none"]

\* generate_index_script(table_name), column being the default "ID":
\* [raised, script].  The names of the model are strings, so line 14 rejects
\* the blank ones.
generate_index_script(table_name) ==
    IF ~StripNonEmpty(table_name)
    THEN [raised |-> "ValueError", script |-> NoScript]
    ELSE [raised |-> "none",
          script |-> [statement |-> "CREATE INDEX",
                      index     |-> <<"idx", Lower(table_name), "id">>,
                      table     |-> table_name,
                      column    |-> "ID"]]

\* generate_refactor_script(query): the dict of lines 92-97 holds the two
\* required fields, so line 26 passes.
generate_refactor_script(query) ==
    [statement  |-> "refactor hint",
     sql_id     |-> query.sql_id,
     avg_time   |-> query.avg_time,
     schema     |-> query.schema,
     sample_sql |-> query.sample_sql]

\* Lines 79-101 for one solution: the script and its file name, or why there
\* is none.  The time stamp of the name is left out: a run names its files
\* within one second or not, and no two solutions of a list share category
\* and table.
ScriptByAction(solution) ==
    IF solution.type # "dict"
    THEN [outcome |-> "invalid", script |-> NoScript, filename |-> <<>>]
    ELSE LET table_name == Get(solution.val, "table", "unknown_table")
             action == Get(solution.val, "suggestion", "")
         IN  IF action = "criar indice"
             THEN IF generate_index_script(table_name).raised # "none"
                  THEN [outcome |-> "error", script |-> NoScript, filename |-> <<>>]
                  ELSE [outcome  |-> "script",
                        script   |-> generate_index_script(table_name).script,
                        filename |-> <<"T1_idx", table_name>>]
             ELSE IF action = "refatorar query ou particionar"
             THEN [outcome  |-> "script",
                   script   |-> generate_refactor_script(
                                    [sql_id     |-> Get(solution.val, "group_key", "unknown"),
                                     avg_time   |-> Get(solution.val, "avg_exec_time", 0),
                                     schema     |-> Get(solution.val, "schema", "unknown"),
                                     sample_sql |-> Get(solution.val, "sample_sql", "")]),
                   filename |-> <<"T2_refactor", table_name>>]
             ELSE [outcome |-> "unknown", script |-> NoScript, filename |-> <<>>]

ScriptOf(solution) ==
    IF solution.type # "dict"
    THEN [outcome |-> "invalid", script |-> NoScript, filename |-> <<>>]
    ELSE LET table_name == Get(solution.val, "table", "unknown_table")
             category == Get(solution.val, "category", "T1")
         IN  IF category = "T1"
             THEN IF generate_index_script(table_name).raised # "none"
                  THEN [outcome |-> "error", script |-> NoScript, filename |-> <<>>]
                  ELSE [outcome  |-> "script",
                        script   |-> generate_index_script(table_name).script,
                        filename |-> <<"T1_idx", table_name>>]
             ELSE IF category = "T2"
             THEN [outcome  |-> "script",
                   script   |-> generate_refactor_script(
                                    [sql_id     |-> Get(solution.val, "group_key", "unknown"),
                                     avg_time   |-> Get(solution.val, "avg_exec_time", 0),
                                     schema     |-> Get(solution.val, "schema", "unknown"),
                                     sample_sql |-> Get(solution.val, "sample_sql", "")]),
                   filename |-> <<"T2_refactor", table_name>>]
             ELSE [outcome |-> "unknown", script |-> NoScript, filename |-> <<>>]

\* Lines 103-104: the save_sql_script calls, in list order.  writable[i] says
\* whether open() succeeds when the i-th solution is saved (lines 47-54).
SaveAttempts(items, writable) ==
    LET made == SelectSeq([i \in 1..Len(items) |-> i],
                          LAMBDA i : ScriptOf(items[i]).outcome = "script")
    IN  [k \in 1..Len(made) |->
            [solution |-> made[k],
             filename |-> ScriptOf(items[made[k]]).filename,
             script   |-> ScriptOf(items[made[k]]).script,
             saved    |-> writable[made[k]]]]

\* The files that the attempts leave on disk.
FilesOf(attempts) ==
    {[filename |-> attempts[k].filename, script |-> attempts[k].script] :
        k \in {j \in 1..Len(attempts) : attempts[j].saved}}

\* An all-or-nothing variant: one failure and nothing is kept.
generate_scripts_all_or_nothing(sols, writable) ==
    IF sols.type # "list"
    THEN [raised |-> "ValueError", generated_files |-> <<>>, saves |-> <<>>, files |-> {}]
    ELSE LET attempts == SaveAttempts(sols.items, writable)
             complete == /\ Len(attempts) = Len(sols.items)
                         /\ \A k \in 1..Len(attempts) : attempts[k].saved
         IN  [raised          |-> "none",
              generated_files |-> IF complete
                                  THEN [k \in 1..Len(attempts) |-> attempts[k].filename]
                                  ELSE <<>>,
              saves           |-> attempts,
              files           |-> IF complete THEN FilesOf(attempts) ELSE {}]

\* generate_scripts(solutions), sols being the argument: [raised, generated_files, saves, files], files
\* being what the call wrote.
generate_scripts(sols, writable) ==
    IF sols.type # "list"
    THEN [raised |-> "ValueError", generated_files |-> <<>>, saves |-> <<>>, files |-> {}]
    ELSE LET attempts == SaveAttempts(sols.items, writable)
             kept == SelectSeq(attempts, LAMBDA a : a.saved)
         IN  [raised          |-> "none",
              generated_files |-> [k \in 1..Len(kept) |-> kept[k].filename],
              saves           |-> attempts,
              files           |-> FilesOf(attempts)]

\* open(file_path, "w"): a file of the same name is replaced.
WriteFiles(dir, files) ==
    {f \in dir : \A g \in files : g.filename # f.filename} \cup files

----------------------------------------------------------------------------
(* Specification of the script generator alone: generate_scripts is called *)
(* with a list of suggestions of the planner and of other items, or with a *)
(* value that is no list, each save succeeding or failing.                 *)

MaxSolutions == 2

GeneratorReaders == Readers({[t \in Tables |-> SizeValue(5)]}, {OwnedByApp},
                            {NoIndexes, IndexOnUsers, IndexOnOrders})

\* What evaluate_performance suggests for USERS in T1 and for ORDERS in T2
\* (no queries passed, as main.py calls it), by the indexes found.
PlannerSolutions ==
    {T1Solution(r, TableInfo(r, "USERS", 5)) : r \in GeneratorReaders}
    \cup {T2Solution(r, TableInfo(r, "ORDERS", 15), <<>>) : r \in GeneratorReaders}

\* The items of the tests: no dict, an unknown category, no category, a
\* blank table name, and a T2 dict with the fields of the refactor hint.
OtherSolutions ==
    {NotADictSolution,
     DictSolution([table |-> "USERS", category |-> "T3"]),
     DictSolution([table |-> "users"]),
     DictSolution([table |-> " ", category |-> "T1"]),
     DictSolution([table |-> "orders", category |-> "T2", group_key |-> "q123",
                   sample_sql |-> "SELECT * FROM orders", avg_exec_time |-> 200])}

GeneratorItems == {DictSolution(s) : s \in PlannerSolutions} \cup OtherSolutions

InitGenerate ==
    /\ PipelineIdle
    /\ config_file = NoConfigFile
    /\ controllers = [c \in ControllerIds |-> NotConstructed]
    /\ first_run_returns = <<>>
    /\ run_calls = <<>>
    /\ run_returned = "pending"
    /\ \/ sg_solutions = PyNoneValue
       \/ \E n \in 0..MaxSolutions : \E f \in [1..n -> GeneratorItems] :
              sg_solutions = PyList(f)
    /\ saves = <<>>
    /\ generated_files = <<>>
    /\ output_dir = {}

GenerateCall ==
    /\ pc = "start"
    /\ \E writable \in [1..Len(sg_solutions.items) -> BOOLEAN] :
           LET out == generate_scripts(sg_solutions, writable)
           IN  /\ raised' = out.raised
               /\ saves' = out.saves
               /\ generated_files' = out.generated_files
               /\ output_dir' = WriteFiles(output_dir, out.files)
    /\ pc' = "generated"
    /\ UNCHANGED <<queries, grouped_queries, db_reader, cl_queries, size_threshold,
                   classified_tables, lookups, solutions, returned,
                   results, ev_queries, eg_query, eg_table_size_mb, estimate, run,
                   prev_solutions, config_file, controllers, first_run_returns,
                   run_calls, run_returned, sg_solutions>>

NextGenerate == GenerateCall

SpecGenerate == InitGenerate /\ [][NextGenerate]_vars

\* generate_scripts has returned.
Generated == pc = "generated" /\ raised = "none"

\* The suggestions of the list that state an action.
WithAction == {i \in 1..Len(sg_solutions.items) :
                  /\ sg_solutions.items[i].type = "dict"
                  /\ "suggestion" \in DOMAIN sg_solutions.items[i].val}

\* The script generated for the i-th item of the list, if any.
ScriptsFor(i) == {saves[k].script : k \in {j \in 1..Len(saves) : saves[j].solution = i}}

\* C24 as stated: the action decides the kind of script: CREATE INDEX only
\* for create-index, a refactor hint only for refactor-or-partition.
C24_ScriptKindByAction ==
    Generated =>
        \A i \in WithAction : \A s \in ScriptsFor(i) :
            /\ s.statement = "CREATE INDEX" =>
                   sg_solutions.items[i].val.suggestion = "criar indice"
            /\ s.statement = "refactor hint" =>
                   sg_solutions.items[i].val.suggestion = "refatorar query ou particionar"

\* C24: the category alone decides the kind of script: every T1 suggestion
\* gets the CREATE INDEX statement on its table, also when its action is
\* index-exists; every T2 suggestion gets the refactor hint, also when its
\* action is consider-index; the action is not read.
C24_ScriptKindByCategory ==
    Generated =>
        \A i \in WithAction :
            LET solution == sg_solutions.items[i].val
            IN  /\ Cardinality(ScriptsFor(i)) = 1
                /\ \A s \in ScriptsFor(i) :
                       /\ solution.category = "T1" =>
                              s.statement = "CREATE INDEX" /\ s.table = solution.table
                       /\ solution.category = "T2" => s.statement = "refactor hint"

\* A list of an index-exists suggestion and a consider-index suggestion.
C24_Witness ==
    /\ Generated
    /\ Len(sg_solutions.items) = 2
    /\ WithAction = {1, 2}
    /\ sg_solutions.items[1].val.suggestion = "indice ja existe"
    /\ sg_solutions.items[2].val.suggestion = "considerar indice"
    /\ Len(saves) = 2
    /\ saves[1].script.statement = "CREATE INDEX"
    /\ saves[2].script.statement = "refactor hint"

----------------------------------------------------------------------------
(* Specification of one execution of OracleMonitor.run (main.py lines      *)
(* 108-129) with process_fts_queries (lines 131-148) inside it.  The        *)
(* monitor's controller is instance "A", constructed by                    *)
(* OracleMonitor.__init__ over whatever config file is there.  A stage      *)
(* returns what its function returns, or raises: the stage names are        *)
(* globals of main.py that the tests replace by functions that raise.       *)
(* run_calls records every call of run and of process_fts_queries.          *)

\* Two queries that identify_fts_queries may return: one on USERS, one on
\* ORDERS and users.
RunShapes ==
    {[tables |-> <<"USERS">>, where_conditions |-> <<"ID=1">>, stats |-> Stat(10, 1000)],
     [tables |-> <<"ORDERS", "users">>, where_conditions |-> <<"ID=2">>,
      stats |-> Stat(5, 2000)]}

\* The reader of a connected monitor: USERS has 5 MB, ORDERS 50 MB.
RunReaders ==
    Readers({[t \in Tables |-> IF t = "USERS" THEN SizeValue(5) ELSE SizeValue(50)]},
            {OwnedByApp}, {NoIndexes, IndexOnUsers})

Called(op, outcome) == [op |-> op, outcome |-> outcome]

\* The variables that no step of run touches.
idleInRun == <<size_threshold, results, ev_queries, eg_query, eg_table_size_mb,
               estimate, run, prev_solutions>>

InitRun ==
    /\ PipelineIdle
    /\ config_file \in StartingConfigFiles
    /\ controllers = [c \in ControllerIds |->
                         IF c = "A" THEN ExecutionController(config_file)
                         ELSE NotConstructed]
    /\ first_run_returns = <<>>
    /\ run_calls = <<>>
    /\ run_returned = "pending"
    /\ sg_solutions = PyList(<<>>)
    /\ saves = <<>>
    /\ generated_files = <<>>
    /\ output_dir = {}

\* Lines 109-112: log_execution_start, then check_first_run.
RunCheckFirstRun ==
    /\ pc = "start"
    /\ LET out == check_first_run(controllers["A"].config, config_file)
       IN  /\ controllers' = [controllers EXCEPT !["A"].config = out.config]
           /\ config_file' = out.file
           /\ first_run_returns' =
                  Append(first_run_returns, [controller |-> "A", returned |-> out.returned])
           /\ run_calls' = run_calls \o
                  <<Called("log_execution_start", "returned"),
                    Called("check_first_run", IF out.returned THEN "True" ELSE "False")>>
    /\ pc' = "checked"
    /\ UNCHANGED <<queries, grouped_queries, db_reader, cl_queries, classified_tables,
                   lookups, raised, solutions, returned, idleInRun, run_returned,
                   sg_solutions, saves, generated_files, output_dir>>

\* A variant that connects before anything else and never checks.
RunConnect_unchecked ==
    /\ pc \in {"start", "checked"}
    /\ db_reader' \in RunReaders
    /\ run_calls' = Append(run_calls, Called("initialize_db_connection", "True"))
    /\ pc' = "connected"
    /\ UNCHANGED <<queries, grouped_queries, cl_queries, classified_tables,
                   lookups, raised, solutions, returned, idleInRun, config_file,
                   controllers, first_run_returns, run_returned,
                   sg_solutions, saves, generated_files, output_dir>>

\* Lines 114-116: initialize_db_connection (lines 96-106) answers True, or
\* False when connect() does or when anything raises; on False, run returns
\* False at once.
RunConnect ==
    /\ pc = "checked"
    /\ \/ /\ db_reader' \in RunReaders
          /\ run_calls' = Append(run_calls, Called("initialize_db_connection", "True"))
          /\ pc' = "connected"
          /\ UNCHANGED run_returned
       \/ /\ db_reader' = UnavailableReader
          /\ run_calls' = Append(run_calls, Called("initialize_db_connection", "False"))
          /\ run_returned' = "False"
          /\ pc' = "done"
    /\ UNCHANGED <<queries, grouped_queries, cl_queries, classified_tables,
                   lookups, raised, solutions, returned, idleInRun, config_file,
                   controllers, first_run_returns,
                   sg_solutions, saves, generated_files, output_dir>>

\* Lines 134-136 and 146-148, then 118-120: the stage `op` ended
\* process_fts_queries, which returns False; run logs the end and returns
\* False.
ProcessFails(op, outcome) ==
    /\ run_calls' = run_calls \o <<Called(op, outcome), Called("log_execution_end", "returned")>>
    /\ returned' = "False"
    /\ run_returned' = "False"
    /\ pc' = "done"

\* A variant that goes on with an empty list.
RunIdentify_goes_on_empty ==
    /\ pc = "connected"
    /\ \/ /\ ProcessFails("identify_fts_queries", "raised")
          /\ UNCHANGED queries
       \/ /\ \E n \in 0..MaxQueries : \E f \in [1..n -> RunShapes] :
                 queries' = QueriesOf(f)
          /\ run_calls' = Append(run_calls,
                 Called("identify_fts_queries",
                        IF queries' = <<>> THEN "returned empty" ELSE "returned"))
          /\ pc' = "identified"
          /\ UNCHANGED <<returned, run_returned>>
    /\ UNCHANGED <<grouped_queries, db_reader, cl_queries, classified_tables,
                   lookups, raised, solutions, idleInRun, config_file,
                   controllers, first_run_returns,
                   sg_solutions, saves, generated_files, output_dir>>

\* Lines 133-136
RunIdentify ==
    /\ pc = "connected"
    /\ \/ /\ ProcessFails("identify_fts_queries", "raised")
          /\ UNCHANGED queries
       \/ /\ queries' = <<>>
          /\ ProcessFails("identify_fts_queries", "returned empty")
       \/ /\ \E n \in 1..MaxQueries : \E f \in [1..n -> RunShapes] :
                 queries' = QueriesOf(f)
          /\ run_calls' = Append(run_calls, Called("identify_fts_queries", "returned"))
          /\ pc' = "identified"
          /\ UNCHANGED <<returned, run_returned>>
    /\ UNCHANGED <<grouped_queries, db_reader, cl_queries, classified_tables,
                   lookups, raised, solutions, idleInRun, config_file,
                   controllers, first_run_returns,
                   sg_solutions, saves, generated_files, output_dir>>

\* Lines 138-139: group_similar_queries and _log_query_groups.
RunGroup ==
    /\ pc = "identified"
    /\ \/ /\ ProcessFails("group_similar_queries", "raised")
          /\ UNCHANGED grouped_queries
       \/ /\ grouped_queries' = group_similar_queries(queries)
          /\ run_calls' = Append(run_calls, Called("group_similar_queries", "returned"))
          /\ pc' = "grouped"
          /\ UNCHANGED <<returned, run_returned>>
    /\ UNCHANGED <<queries, db_reader, cl_queries, classified_tables,
                   lookups, raised, solutions, idleInRun, config_file,
                   controllers, first_run_returns,
                   sg_solutions, saves, generated_files, output_dir>>

\* Line 141
RunClassify ==
    /\ pc = "grouped"
    /\ cl_queries' = PyList([i \in 1..Len(grouped_queries) |->
                                GroupAsEntry(grouped_queries[i])])
    /\ LET out == classify_tables(db_reader, cl_queries', size_threshold)
       IN  \/ /\ ProcessFails("classify_tables", "raised")
              /\ raised' = IF out.raised # "none" THEN out.raised ELSE "Exception"
              /\ UNCHANGED <<classified_tables, lookups>>
           \/ /\ out.raised = "none"
              /\ classified_tables' = out.result
              /\ lookups' = lookups \o out.lookups
              /\ run_calls' = Append(run_calls, Called("classify_tables", "returned"))
              /\ pc' = "classified"
              /\ UNCHANGED <<raised, returned, run_returned>>
    /\ UNCHANGED <<queries, grouped_queries, db_reader, solutions, idleInRun,
                   config_file, controllers, first_run_returns,
                   sg_solutions, saves, generated_files, output_dir>>

\* Line 142: evaluate_performance(db_reader, classified_tables), no queries.
RunEvaluate ==
    /\ pc = "classified"
    /\ LET out == evaluate_performance(db_reader, classified_tables, <<>>)
       IN  \/ /\ ProcessFails("evaluate_performance", "raised")
              /\ raised' = IF out.raised # "none" THEN out.raised ELSE "Exception"
              /\ UNCHANGED <<solutions, lookups>>
           \/ /\ out.raised = "none"
              /\ solutions' = out.solutions
              /\ lookups' = lookups \o out.lookups
              /\ run_calls' = Append(run_calls, Called("evaluate_performance", "returned"))
              /\ pc' = "evaluated"
              /\ UNCHANGED <<raised, returned, run_returned>>
    /\ UNCHANGED <<queries, grouped_queries, db_reader, cl_queries, classified_tables,
                   idleInRun, config_file, controllers, first_run_returns,
                   sg_solutions, saves, generated_files, output_dir>>

\* Lines 143-144: generate_scripts(performance_data), then return True.  A
\* generate_scripts that raises does so at line 70, before any file.
RunGenerate ==
    /\ pc = "evaluated"
    /\ sg_solutions' = PyList([i \in 1..Len(solutions) |-> DictSolution(solutions[i])])
    /\ \/ /\ ProcessFails("generate_scripts", "raised")
          /\ UNCHANGED <<saves, generated_files, output_dir>>
       \/ /\ \E writable \in [1..Len(solutions) -> BOOLEAN] :
                 LET out == generate_scripts(sg_solutions', writable)
                 IN  /\ saves' = out.saves
                     /\ generated_files' = out.generated_files
                     /\ output_dir' = WriteFiles(output_dir, out.files)
          /\ run_calls' = Append(run_calls, Called("generate_scripts", "returned"))
          /\ returned' = "True"
          /\ pc' = "processed"
          /\ UNCHANGED run_returned
    /\ UNCHANGED <<queries, grouped_queries, db_reader, cl_queries, classified_tables,
                   lookups, raised, solutions, idleInRun, config_file, controllers,
                   first_run_returns>>

\* A variant of run that gives up when the GitHub update fails.
RunUpdateGithub_required ==
    /\ pc = "processed"
    /\ \/ /\ run_calls' = Append(run_calls, Called("_update_github", "True"))
          /\ pc' = "published"
          /\ UNCHANGED run_returned
       \/ /\ run_calls' = run_calls \o <<Called("_update_github", "False"),
                                         Called("log_execution_end", "returned")>>
          /\ run_returned' = "False"
          /\ pc' = "done"
    /\ UNCHANGED <<queries, grouped_queries, db_reader, cl_queries, classified_tables,
                   lookups, raised, solutions, returned, idleInRun, config_file,
                   controllers, first_run_returns,
                   sg_solutions, saves, generated_files, output_dir>>

\* Line 122: _update_github (lines 163-175) answers True or False, which run
\* does not read.
RunUpdateGithub ==
    /\ pc = "processed"
    /\ \E outcome \in {"True", "False"} :
           run_calls' = Append(run_calls, Called("_update_github", outcome))
    /\ pc' = "published"
    /\ UNCHANGED <<queries, grouped_queries, db_reader, cl_queries, classified_tables,
                   lookups, raised, solutions, returned, idleInRun, config_file,
                   controllers, first_run_returns, run_returned,
                   sg_solutions, saves, generated_files, output_dir>>

\* Lines 124-129: schedule_next_run(hours=6), log_execution_end, return True.
\* The controller has the section since check_first_run, so set() passes.
RunSchedule ==
    /\ pc = "published"
    /\ LET out == schedule_next_run(controllers["A"].config, config_file, 6)
       IN  /\ controllers' = [controllers EXCEPT !["A"].config = out.config]
           /\ config_file' = out.file
           /\ raised' = out.raised
           /\ run_calls' = run_calls \o
                  IF out.raised = "none"
                  THEN <<Called("schedule_next_run", "returned"),
                         Called("log_execution_end", "returned")>>
                  ELSE <<Called("schedule_next_run", "raised")>>
           /\ run_returned' = IF out.raised = "none" THEN "True" ELSE "raised"
    /\ pc' = "done"
    /\ UNCHANGED <<queries, grouped_queries, db_reader, cl_queries, classified_tables,
                   lookups, solutions, returned, idleInRun, first_run_returns,
                   sg_solutions, saves, generated_files, output_dir>>

NextRun ==
    \/ RunCheckFirstRun
    \/ RunConnect
    \/ RunIdentify
    \/ RunGroup
    \/ RunClassify
    \/ RunEvaluate
    \/ RunGenerate
    \/ RunUpdateGithub
    \/ RunSchedule

SpecRun == InitRun /\ [][NextRun]_vars

\* The positions of run_calls that hold a call of `op`.
CallsOf(op) == {i \in 1..Len(run_calls) : run_calls[i].op = op}

StageOrder ==
    <<"identify_fts_queries", "group_similar_queries", "classify_tables",
      "evaluate_performance", "generate_scripts">>

\* The operations of a run other than its logging and the first-run check.
RunOperations ==
    {"initialize_db_connection", "_update_github", "schedule_next_run"}
    \cup Range(StageOrder)

OperationCalls == UNION {CallsOf(op) : op \in RunOperations}

RunEnded == run_returned # "pending"

\* C22: in every execution of run, check_first_run is called exactly once,
\* and before the database connection is attempted and before any pipeline
\* stage, GitHub update or scheduling call.
C22_CheckFirstRunOnceAndFirst ==
    /\ Cardinality(CallsOf("check_first_run")) <= 1
    /\ \A j \in OperationCalls : \E i \in CallsOf("check_first_run") : i < j
    /\ RunEnded => Cardinality(CallsOf("check_first_run")) = 1

\* A run that went through every operation after its first-run check.
C22_Witness ==
    /\ run_returned = "True"
    /\ first_run_returns = <<[controller |-> "A", returned |-> TRUE]>>
    /\ \A op \in RunOperations : CallsOf(op) # {}

Connected == Called("initialize_db_connection", "True") \in Range(run_calls)

\* C23: schedule_next_run(hours=6) is called at most once, after
\* process_fts_queries and the GitHub update; when run has ended it was
\* called if and only if the connection and process_fts_queries both
\* succeeded, run returned True exactly in that case, whatever the GitHub
\* update answered, and False without scheduling otherwise.
C23_ScheduledOnlyOnSuccess ==
    /\ Cardinality(CallsOf("schedule_next_run")) <= 1
    /\ \A i \in CallsOf("schedule_next_run") :
           /\ CallsOf("_update_github") # {}
           /\ \A j \in OperationCalls \ {i} : j < i
           /\ config_file.content.NEXT_RUN_TIMESTAMP = NextRunIn(6)
    /\ RunEnded =>
           /\ CallsOf("schedule_next_run") # {} <=> (Connected /\ returned = "True")
           /\ run_returned = "True" <=> (Connected /\ returned = "True")
           /\ run_returned = "False" <=> ~(Connected /\ returned = "True")

\* A run that was scheduled although its GitHub update failed.
C23_Witness ==
    /\ run_returned = "True"
    /\ Called("_update_github", "False") \in Range(run_calls)
    /\ run_calls[Len(run_calls) - 1] = Called("schedule_next_run", "returned")

\* The stage calls of process_fts_queries, in call order.
StageCalls == SelectSeq(run_calls, LAMBDA c : c.op \in Range(StageOrder))

\* C27: process_fts_queries calls its stages in the order identify, group,
\* classify, evaluate, generate-scripts, each at most once; a stage is
\* called only after every earlier stage returned and identify returned a
\* non-empty list; the method returns False when identify returns nothing or
\* a stage raises, and True only after generate-scripts has returned.
C27_StagesInOrderUntilFailure ==
    /\ Len(StageCalls) <= Len(StageOrder)
    /\ \A k \in 1..Len(StageCalls) :
           /\ StageCalls[k].op = StageOrder[k]
           /\ k < Len(StageCalls) => StageCalls[k].outcome = "returned"
    /\ returned \in {"pending", "True", "False"}
    /\ returned = "True" <=>
           /\ Len(StageCalls) = Len(StageOrder)
           /\ StageCalls[Len(StageCalls)].outcome = "returned"
    /\ returned = "False" <=>
           /\ StageCalls # <<>>
           /\ StageCalls[Len(StageCalls)].outcome \in {"raised", "returned empty"}
    /\ \A k \in 1..Len(StageCalls) :
           StageCalls[k].outcome = "returned empty" => k = 1 /\ queries = <<>>

\* A run whose classify stage raised: two stages returned, none followed.
C27_Witness ==
    /\ returned = "False"
    /\ Len(StageCalls) = 3
    /\ StageCalls[3] = Called("classify_tables", "raised")
    /\ queries # <<>>

\* Some suggestion of the run got no script, or its script was not saved.
ScriptMissing ==
    \/ Len(saves) < Len(sg_solutions.items)
    \/ \E k \in 1..Len(saves) : ~saves[k].saved

\* C25 as stated: output is atomic at whole-run granularity: a run that
\* fails, or in which one script cannot be generated or saved, leaves no
\* script file; either every suggestion of the run has its file or no file
\* is there.
C25_WholeRunAtomic ==
    /\ (run_returned = "False" \/ returned = "False" \/ ScriptMissing) => output_dir = {}
    /\ output_dir = {} \/ Cardinality(output_dir) = Len(sg_solutions.items)

\* C25: every suggestion is handled on its own: the files left are exactly
\* those of the saves that succeeded, also when other saves of the run
\* failed, and generate_scripts returns their names in list order; a
\* run whose processing failed, which is before any save, leaves no file.
C25_EachScriptOnItsOwn ==
    /\ output_dir = FilesOf(saves)
    /\ generated_files = [k \in 1..Len(SelectSeq(saves, LAMBDA a : a.saved)) |->
                             SelectSeq(saves, LAMBDA a : a.saved)[k].filename]
    /\ returned = "True" => Len(saves) = Len(sg_solutions.items)
    /\ (run_returned = "False" \/ returned = "False") => output_dir = {}

\* A run that returned True with the first of its two scripts on disk and
\* the second one not saved.
C25_Witness ==
    /\ run_returned = "True"
    /\ Len(saves) = 2
    /\ saves[1].saved
    /\ ~saves[2].saved
    /\ Cardinality(output_dir) = 1

\* The T2 suggestions of the list that evaluate_performance returned.
T2Suggestions == {i \in 1..Len(solutions) : solutions[i].category = "T2"}

\* C26: in the pipeline as composed (classify_tables on the query groups,
\* then evaluate_performance on that classification), every T2 suggestion
\* has a non-empty set of matching groups and an average gain greater than
\* 0, in whatever case the query text names the table.
C26_T2SuggestionsMatchTheirGroups ==
    pc = "evaluated" =>
        \A i \in T2Suggestions :
            /\ RelevantQueries(QueriesOrEmpty(ev_queries), solutions[i].table) # <<>>
            /\ solutions[i].avg_gain_percent > 0

\* The pipeline classified ORDERS, named by a query, as T2 and suggested for
\* it with gain 0 and score 5.
C26_UnmatchedT2Suggestion ==
    /\ pc = "evaluated"
    /\ \E i \in T2Suggestions :
           /\ solutions[i].table = "ORDERS"
           /\ \E k \in 1..Len(grouped_queries) : "ORDERS" \in grouped_queries[k].tables
           /\ solutions[i].avg_gain_percent = 0
           /\ solutions[i].priority_score = 5

RECURSIVE SumCounts(_)
SumCounts(groups) ==
    IF groups = <<>> THEN 0 ELSE Head(groups).count + SumCounts(Tail(groups))

RECURSIVE SumTotalExecTime(_)
SumTotalExecTime(groups) ==
    IF groups = <<>> THEN 0
    ELSE Head(groups).total_exec_time + SumTotalExecTime(Tail(groups))

\* C28: the groups returned by group_similar_queries partition the input:
\* the sql_id of every input query is in the sql_ids of exactly one group,
\* the sql_ids of a group are those of its members in input order, the count
\* of a group is the length of its sql_ids and at least 1, the counts sum to
\* the number of input queries and the total_exec_time values to the sum of
\* the inputs' elapsed_time.
C28_GroupsPartitionTheInput ==
    pc = "grouped" =>
        /\ \A i \in 1..Len(queries) : Cardinality(GroupsOf(queries[i].sql_id)) = 1
        /\ \A k \in 1..Len(grouped_queries) :
               LET g == grouped_queries[k]
               IN  /\ g.sql_ids = [m \in 1..Len(Members(g)) |-> Members(g)[m].sql_id]
                   /\ g.count = Len(g.sql_ids)
                   /\ g.count >= 1
                   /\ g.total_exec_time = SumElapsed(Members(g))
        /\ SumCounts(grouped_queries) = Len(queries)
        /\ SumTotalExecTime(grouped_queries) = SumElapsed(queries)

\* Two queries of different statistics were folded into one group.
C28_Witness ==
    /\ pc = "grouped"
    /\ Len(queries) = 2
    /\ queries[1].elapsed_time # queries[2].elapsed_time
    /\ Len(grouped_queries) = 1
    /\ grouped_queries[1].sql_ids = <<1, 2>>
    /\ grouped_queries[1].count = 2

\* The tables whose index lookup failed.
FailedIndexLookups ==
    {t \in Tables : db_reader.indexes[t] \in {IndexQueryFailed, Nothing(<<>>)}}

\* The reader whose index lookups all answer the empty list.
ReaderWithoutIndexes == [db_reader EXCEPT !.indexes = NoIndexes]

\* C29: a failed index lookup reads as a table without indexes: the T1
\* table is reported as the same table without indexes is, with create
\* index, score 8 and high impact, the T2 table with consider index, and
\* the evaluation does not raise.
C29_FailedLookupReadsAsNoIndexes ==
    Planned =>
        /\ FailedIndexLookups # {} => raised = "none"
        /\ \A t \in FailedIndexLookups :
               /\ ~Truthy(get_existing_indexes(db_reader, t))
               /\ \A i \in 1..Len(solutions) :
                      LET sol  == solutions[i]
                          info == [table |-> t, size_mb |-> sol.size_mb]
                      IN  sol.table = t =>
                              /\ sol.category = "T1" =>
                                     /\ sol.suggestion = "criar indice"
                                     /\ sol.priority_score = 8
                                     /\ sol.impact = "Alta"
                                     /\ [sol EXCEPT !.existing_indexes = Some(<<>>)]
                                            = T1Solution(ReaderWithoutIndexes, info)
                              /\ sol.category = "T2" =>
                                     /\ sol.suggestion = "considerar indice"
                                     /\ [sol EXCEPT !.existing_indexes = Some(<<>>)]
                                            = T2Solution(ReaderWithoutIndexes, info,
                                                         QueriesOrEmpty(ev_queries))

\* The index query of ORDERS failed: ORDERS, in T1, is reported as a table
\* to index, next to USERS whose index was found.
C29_Witness ==
    /\ Planned
    /\ raised = "none"
    /\ db_reader.indexes["ORDERS"] = IndexQueryFailed
    /\ Len(solutions) = 2
    /\ solutions[1].table = "ORDERS" /\ solutions[1].category = "T1"
    /\ solutions[1].suggestion = "criar indice"
    /\ solutions[1].existing_indexes = Some(<<>>)
    /\ solutions[2].table = "USERS" /\ solutions[2].suggestion = "indice ja existe"

\* C30: for a T2 table that some query passed reads, the average gain is 60,
\* 40 or 20 by the size band of the table alone (below 10 MB, below 50 MB,
\* 50 MB or more); score 9 needs a table below 50 MB that a query reads; a
\* table of 50 MB or more that a query reads has gain 20, score 7 and
\* medium impact; the score is 5 exactly when no query reads the table.
C30_T2GainBySizeBandAlone ==
    (Planned /\ raised = "none") =>
        \A i \in 1..Len(classified_tables.T2) :
            LET info == classified_tables.T2[i]
                sol  == SuggestionsFor("T2", info.table)[1]
                read == Matching(info.table) # {}
            IN  /\ read => sol.avg_gain_percent =
                               (IF info.size_mb < 10 THEN 60
                                ELSE IF info.size_mb < 50 THEN 40 ELSE 20)
                /\ sol.priority_score = 9 =>
                       read /\ info.size_mb < 50 /\ sol.impact = "Critico"
                /\ (read /\ info.size_mb >= 50) =>
                       /\ sol.avg_gain_percent = 20
                       /\ sol.priority_score = 7
                       /\ sol.impact = "Medio"
                /\ sol.priority_score = 5 <=> ~read

\* ORDERS has exactly 50 MB and USERS 15 MB, two queries read both: ORDERS
\* gets gain 20 and score 7, USERS gain 40 and score 9.
C30_Witness ==
    /\ Planned
    /\ raised = "none"
    /\ Len(classified_tables.T2) = 2
    /\ classified_tables.T2[1].table = "ORDERS" /\ classified_tables.T2[1].size_mb = 50
    /\ classified_tables.T2[2].size_mb = 15
    /\ Cardinality(Matching("ORDERS")) = 2
    /\ solutions[1].avg_gain_percent = 20 /\ solutions[1].priority_score = 7
    /\ solutions[2].avg_gain_percent = 40 /\ solutions[2].priority_score = 9

====
